---- MODULE Spec2Model ----
(***************************************************************************)
(* Session scheduler of the LinkedIn scraper: the StateMachine             *)
(* (utils/state_machine.py), the Brain and its control loop                *)
(* (services/linked_navigator/brain.py), the BatchProcessor that runs the  *)
(* registered session callback (services/linked_navigator/                 *)
(* batch_processor.py) and the parts of the QueueManager the scheduler     *)
(* reads (services/linked_navigator/queue_manager.py).                     *)
(*                                                                         *)
(* Time is the wall clock in seconds since midnight of day 0.  A step is   *)
(* one call on a shared object (the state machine, the Brain, the queue    *)
(* file) or one blocking point of a thread; the threads interleave between *)
(* steps.  The loop reads the state in one step and runs the handler for   *)
(* the state it read in a later one, as _main_loop does.  The one-second   *)
(* sleep that ends each pass of the loop takes no time here: it only lets  *)
(* the other threads run.  A sleeping thread wakes no sooner than its      *)
(* sleep ends, and may wake later.                                         *)
(***************************************************************************)
EXTENDS Integers, Sequences, FiniteSets, TLC

(***************************************************************************)
(* config/scraper_config.py                                                *)
(***************************************************************************)
INACTIVE == "inactive"
WAITING_FOR_ACTIVE_HOURS == "waiting_for_active_hours"
PLANNING_NEXT_SESSION == "planning_next_session"
SESSION_STARTING == "session_starting"
FEED_BROWSING == "feed_browsing"
PROFILE_SCRAPING == "profile_scraping"
SESSION_ENDING == "session_ending"
COOLDOWN_PERIOD == "cooldown_period"
ERROR == "error"
RATE_LIMITED == "rate_limited"
AUTHENTICATION_FAILURE == "authentication_failure"

STATES ==
    { INACTIVE, WAITING_FOR_ACTIVE_HOURS, PLANNING_NEXT_SESSION, SESSION_STARTING,
      FEED_BROWSING, PROFILE_SCRAPING, SESSION_ENDING, COOLDOWN_PERIOD, ERROR,
      RATE_LIMITED, AUTHENTICATION_FAILURE }

SYSTEM_STATE_CHANGED == "system_state_changed"
QUEUE_UPDATED == "queue_updated"
SESSION_PLANNED == "session_planned"
SESSION_STARTED == "session_started"
SESSION_ENDED == "session_ended"
PROFILE_SCRAPED == "profile_scraped"
PROFILE_FAILED == "profile_failed"

ACTIVE_HOURS == 10 .. 20
SESSIONS_PER_HOUR == 2
MINIMUM_SESSION_SPACING == 900

\* SESSION_TYPES: name, max_profiles and probability (in percent)
SESSION_TYPES ==
    << [name |-> "regular", max_profiles |-> 8, probability |-> 60],
       [name |-> "short", max_profiles |-> 5, probability |-> 20],
       [name |-> "long", max_profiles |-> 12, probability |-> 10],
       [name |-> "quick", max_profiles |-> 3, probability |-> 10] >>

(***************************************************************************)
(* Bounds of the model.                                                    *)
(***************************************************************************)
\* entries of the transition history the model keeps (the program keeps 100)
MaxHistory == 3
\* threads running _main_loop at the same time
MaxLoops == 1
\* threads that have run _main_loop and have not ended, where a stopped loop is followed
\* beyond the return of stop()
MaxThreads == 2
\* session plans ever made, and session threads ever started
MaxSessions == 2
\* distinct profile URLs submitted
MaxUrls == 1
\* interventions from outside the scheduler: stop() calls that find it running, and
\* transition(ERROR) calls on its state machine
MaxInterventions == 1
\* faults raised inside a state handler
MaxFaults == 1
\* status updates the session callback makes
MaxMarks == 1
\* threads that are inside an operation of the queue or of the memory at the same time
MaxCallers == 2
\* callables that are subscribed to the EventBus
MaxHandlers == 2
\* events published on the EventBus whose delivery is followed
MaxPublished == 1
\* seconds of wall clock the model follows after its start time
Horizon == 600

Loops == 1 .. MaxLoops
LoopThreads == 1 .. MaxThreads
Workers == 1 .. MaxSessions
Urls == 1 .. MaxUrls
Callers == 1 .. MaxCallers
Handlers == 1 .. MaxHandlers
\* the clock at construction: 19:50:00 or 20:55:00 of day 0
StartTimes == { 19 * 3600 + 50 * 60, 20 * 3600 + 55 * 60 }
\* the last instant the model follows from the start time before t
EndOfTime(t) == (CHOOSE s \in StartTimes : s <= t /\ \A u \in StartTimes : u <= t => u <= s) + Horizon
\* self.three_session_hour and self.one_session_hours as _configure_special_hours drew them:
\* 19:00 is a one-session hour, 20:00 an ordinary one
SpecialHours == { [three |-> 18, ones |-> {17, 19}] }
\* random.randint(1, 15 * 60), random.randint(30, 300), random.randint(10, 30) minutes,
\* random.random() in percent: the draws the scheduler model follows
OffsetDraws == { 1, 900 }
DelayDraws == { 30, 300 }
CooldownDraws == { 10, 30 }
RandDraws == { 50 }
\* the urgent flag of a submission
SubmitUrgency == { FALSE }
\* whether the session callback raises
Raises == BOOLEAN

(***************************************************************************)
(* Clock arithmetic: datetime.hour, datetime.date(), datetime.replace.     *)
(***************************************************************************)
HourOf(t) == (t % (24 * 3600)) \div 3600
DateOf(t) == t \div (24 * 3600)
\* now.replace(hour=h, minute=0, second=0, microsecond=0)
ReplaceHour(t, h) == DateOf(t) * (24 * 3600) + h * 3600

Min(a, b) == IF a <= b THEN a ELSE b
Max(a, b) == IF a >= b THEN a ELSE b

(***************************************************************************)
(* Payloads.  A session plan, the state_data dictionary and an event are   *)
(* records of one shape each; absent keys hold the defaults below.         *)
(***************************************************************************)
NoPlan == [id |-> 0, type |-> "", planned_start_time |-> 0, max_profiles |-> 0, profiles |-> << >>]

\* data=None or an empty dict: the falsy payload of transition()
NoData == [kind |-> "none", plan |-> NoPlan, session_id |-> 0, cooldown_end |-> 0, error |-> 0]
\* self.state_data = {} of the constructor
EmptyData == [kind |-> "empty", plan |-> NoPlan, session_id |-> 0, cooldown_end |-> 0, error |-> 0]
PlanData(p) == [kind |-> "session_plan", plan |-> p, session_id |-> 0, cooldown_end |-> 0, error |-> 0]
SessionIdData(id) ==
    [kind |-> "session_id", plan |-> NoPlan, session_id |-> id, cooldown_end |-> 0, error |-> 0]
CooldownData(id, e) ==
    [kind |-> "cooldown", plan |-> NoPlan, session_id |-> id, cooldown_end |-> e, error |-> 0]
\* {"error": str(e), "traceback": ...} of the exception the loop caught, e the number of the fault
ErrorData(e) == [kind |-> "error", plan |-> NoPlan, session_id |-> 0, cooldown_end |-> 0, error |-> e]

Event(type, old, new, id) == [type |-> type, old |-> old, new |-> new, id |-> id]

VARIABLES
    now,               \* datetime.now(), in seconds
    current_state,     \* StateMachine.current_state of the Brain's state machine
    state_data,        \* StateMachine.state_data
    state_history,     \* StateMachine.state_history, its most recent entries
    emitted,           \* the events the last step published on the EventBus, in order
    lastCall,          \* the call a caller of one component made last, and what it returned
    running,           \* Brain.running
    thread,            \* Brain.thread: the loop thread start() created last, 0 for None
    loops,             \* the threads running Brain._main_loop
    stopper,           \* the caller inside Brain.stop()
    next_sessions,     \* Brain.next_sessions
    current_session,   \* Brain.current_session
    memory,            \* the memory file: the recorded sessions and the statistics
    special,           \* Brain.three_session_hour and Brain.one_session_hours
    queue,             \* the queue file
    session_callback,  \* BatchProcessor.session_callback is set
    processing_lock,   \* BatchProcessor.processing_lock: the thread holding it, 0 if free
    workers,           \* the threads running BatchProcessor._process_session
    calls,             \* the threads inside an operation of the queue or of the memory
    bus,               \* the EventBus: its subscribers, its history and the publish under way
    audit              \* bookkeeping of the run: what has happened so far

smVars == <<current_state, state_data, state_history>>
brainVars == <<running, thread, loops, stopper, next_sessions, current_session, memory, special>>
bpVars == <<queue, session_callback, processing_lock, workers>>
vars == <<now, current_state, state_data, state_history, emitted, lastCall,
          running, thread, loops, stopper, next_sessions, current_session, memory,
          special, queue, session_callback, processing_lock, workers, calls, bus, audit>>

NoCall == [op |-> "none", target |-> "", ok |-> FALSE, value |-> 0]

(***************************************************************************)
(* utils/state_machine.py                                                  *)
(***************************************************************************)
\* self.valid_transitions.get(s, set())
valid_transitions(s) ==
    CASE s = INACTIVE -> { WAITING_FOR_ACTIVE_HOURS, ERROR }
      [] s = WAITING_FOR_ACTIVE_HOURS -> { PLANNING_NEXT_SESSION, INACTIVE, ERROR }
      [] s = PLANNING_NEXT_SESSION ->
            { SESSION_STARTING, WAITING_FOR_ACTIVE_HOURS, INACTIVE, ERROR }
      [] s = SESSION_STARTING -> { FEED_BROWSING, INACTIVE, ERROR }
      [] s = FEED_BROWSING -> { PROFILE_SCRAPING, SESSION_ENDING, ERROR }
      [] s = PROFILE_SCRAPING -> { PROFILE_SCRAPING, SESSION_ENDING, ERROR }
      [] s = SESSION_ENDING -> { COOLDOWN_PERIOD, INACTIVE, ERROR }
      [] s = COOLDOWN_PERIOD ->
            { PLANNING_NEXT_SESSION, WAITING_FOR_ACTIVE_HOURS, INACTIVE, ERROR }
      [] s = ERROR -> { INACTIVE, WAITING_FOR_ACTIVE_HOURS, PLANNING_NEXT_SESSION }
      [] OTHER -> {}

\* a guard that lets ERROR through from everywhere without consulting the table
transition_allowed_escape(s, t) == t \in valid_transitions(s) \/ t = ERROR

\* a guard under which ERROR cannot be entered at all
transition_allowed_no_escape(s, t) == t \in valid_transitions(s) \ { ERROR }

\* the guard of transition(): new_state in self.valid_transitions.get(current_state, set())
transition_allowed(s, t) == t \in valid_transitions(s)

\* _record_state_change: append, then keep the most recent entries
record_state_change(h, new, old) ==
    LET a == Append(h, <<old, new>>)
    IN  IF Len(a) > MaxHistory THEN SubSeq(a, Len(a) - MaxHistory + 1, Len(a)) ELSE a

\* transition(new_state, reason, data) seen from state <<s, d, h>>:
\* the state, the data and the history it leaves, what it returns, what it publishes
transition_state(s, t) == IF transition_allowed(s, t) THEN t ELSE s
transition_data(s, d, t, data) ==
    IF transition_allowed(s, t) /\ data # NoData THEN data ELSE d
transition_history(s, h, t) ==
    IF transition_allowed(s, t) THEN record_state_change(h, t, s) ELSE h
transition_events(s, t) ==
    IF transition_allowed(s, t) THEN << Event(SYSTEM_STATE_CHANGED, s, t, 0) >> ELSE << >>

\* the three fields of the state machine after transition(t, reason, data)
Transition(t, data) ==
    /\ current_state' = transition_state(current_state, t)
    /\ state_data' = transition_data(current_state, state_data, t, data)
    /\ state_history' = transition_history(current_state, state_history, t)

(***************************************************************************)
(* services/linked_navigator/queue_manager.py                              *)
(***************************************************************************)
QueueEntry(url, urgent, t) ==
    [url |-> url, done |-> FALSE, urgent |-> urgent, status |-> "queued", created_at |-> t]

InQueue(q, url) == \E i \in 1 .. Len(q) : q[i].url = url

\* an add that never looks for the key
add_profile_append(q, url, urgent, t) == Append(q, QueueEntry(url, urgent, t))

\* add_profile: the queue file it leaves
add_profile(q, url, urgent, t) ==
    IF InQueue(q, url)
    THEN [i \in 1 .. Len(q) |->
            IF q[i].url # url THEN q[i]
            ELSE IF q[i].done
                 THEN [q[i] EXCEPT !.done = FALSE, !.urgent = urgent \/ q[i].urgent]
                 ELSE IF urgent /\ ~q[i].urgent THEN [q[i] EXCEPT !.urgent = TRUE] ELSE q[i]]
    ELSE Append(q, QueueEntry(url, urgent, t))

\* a sort key without the urgency: created_at alone
KeyLess_fifo(a, b) == a.created_at < b.created_at

\* the sort key of get_next_profiles: (not urgent, created_at)
KeyLess(a, b) ==
    \/ a.urgent /\ ~b.urgent
    \/ a.urgent = b.urgent /\ a.created_at < b.created_at

\* sorted(): stable, an entry goes behind the entries whose key is not larger
RECURSIVE InsertSorted(_, _)
InsertSorted(e, sq) ==
    IF sq = << >> THEN << e >>
    ELSE IF KeyLess(e, Head(sq)) THEN << e >> \o sq
         ELSE << Head(sq) >> \o InsertSorted(e, Tail(sq))

RECURSIVE Sorted(_)
Sorted(q) == IF q = << >> THEN << >> ELSE InsertSorted(q[Len(q)], Sorted(SubSeq(q, 1, Len(q) - 1)))

get_next_profiles_include_done(q, count) ==
    SubSeq(Sorted(q), 1, Min(count, Len(q)))
\* get_next_profiles(count), include_done=False
get_next_profiles(q, count) ==
    LET filtered == SelectSeq(q, LAMBDA e : ~e.done)
        sorted_queue == Sorted(filtered)
    IN  SubSeq(sorted_queue, 1, Min(count, Len(sorted_queue)))

\* get_queue_stats()["pending"]
pending(q) == Cardinality({ i \in 1 .. Len(q) : ~q[i].done })

\* mark_profile_status: the queue file it leaves (the first entry with the url)
mark_profile_status(q, url, status) ==
    [i \in 1 .. Len(q) |->
        IF q[i].url = url /\ \A j \in 1 .. i - 1 : q[j].url # url
        THEN [q[i] EXCEPT !.status = status,
                          !.done = IF status = "completed" THEN TRUE ELSE q[i].done]
        ELSE q[i]]

(***************************************************************************)
(* services/linked_navigator/brain.py: the start-time computation          *)
(***************************************************************************)
NoSession == [id |-> 0, start_time |-> 0, profiles_completed |-> 0, profiles_failed |-> 0]

\* len(memory["days"][date][hour]["sessions"]), 0 when the day or the hour is absent
HourSessions(mem, date, hour) ==
    SelectSeq(mem.sessions, LAMBDA r : r.date = date /\ r.hour = hour)

\* session_data as memory["days"][date][hour]["sessions"] holds it
StoredSession(date, hour, session_data) ==
    [date |-> date, hour |-> hour, id |-> session_data.id,
     start_time |-> session_data.start_time, end_time |-> session_data.end_time,
     error |-> session_data.error]

\* _update_memory_with_session, between reading the file and writing it
update_memory_with_session(mem, session_data) ==
    [mem EXCEPT !.sessions = Append(@, StoredSession(DateOf(session_data.start_time),
                                                     HourOf(session_data.start_time), session_data)),
                !.total_sessions = @ + 1]

\* _update_memory_with_profile, between reading the file and writing it
update_memory_with_profile(mem, profile_url, status) ==
    [mem EXCEPT !.profiles[profile_url] = Append(@, status)]

target_sessions(sp, hour) ==
    IF hour = sp.three THEN 3
    ELSE IF hour \in sp.ones THEN 1
    ELSE SESSIONS_PER_HOUR

\* the hour after this one, active or not
next_hour_start_any(t) == ReplaceHour(t, HourOf(t) + 1)

\* the hour the next session is planned for when this hour is full: hour + 1 if it is
\* active, else the next active hour of today, else the first active hour of tomorrow
next_hour_start(t) ==
    LET current_hour == HourOf(t)
        later == { h \in ACTIVE_HOURS : h > current_hour }
        least(S) == CHOOSE h \in S : \A k \in S : h <= k
    IN  IF current_hour + 1 \in ACTIVE_HOURS THEN ReplaceHour(t, current_hour + 1)
        ELSE IF later # {} THEN ReplaceHour(t, least(later))
        ELSE ReplaceHour(t, least(ACTIVE_HOURS)) + 24 * 3600

\* _calculate_next_session_time with the two random draws it may make
calculate_next_session_time(t, mem, sp, random_offset, random_delay) ==
    LET hour_sessions == HourSessions(mem, DateOf(t), HourOf(t))
        sessions_this_hour == Len(hour_sessions)
    IN  IF sessions_this_hour >= target_sessions(sp, HourOf(t))
        THEN next_hour_start(t) + random_offset
        ELSE IF hour_sessions # << >>
             THEN LET minimum_next_time ==
                          hour_sessions[Len(hour_sessions)].end_time + MINIMUM_SESSION_SPACING
                  IN  IF minimum_next_time > t THEN minimum_next_time ELSE t + random_delay
             ELSE t + random_delay

\* _select_session_type: rand in percent
RECURSIVE select_from(_, _, _)
select_from(types, rand, cumulative) ==
    IF types = << >> THEN SESSION_TYPES[1]
    ELSE IF rand <= cumulative + Head(types).probability THEN Head(types)
         ELSE select_from(Tail(types), rand, cumulative + Head(types).probability)

select_session_type(rand) == select_from(SESSION_TYPES, rand, 0)

(***************************************************************************)
(* The scheduler after construction: Brain.__init__, BatchProcessor.__init__*)
(***************************************************************************)
NewLoop == [pc |-> "unborn", seen |-> "", wake |-> 0, sid |-> 0]
NewWorker == [pc |-> "unborn", id |-> 0, profiles |-> << >>]
NoStop == [pc |-> "idle", deadline |-> 0, tid |-> 0]
NewMemory == [sessions |-> << >>, total_sessions |-> 0, profiles |-> [u \in Urls |-> << >>]]
\* a thread that is in no operation of a store
NoSessionData == [id |-> 0, start_time |-> 0, end_time |-> 0, error |-> FALSE]
IdleCall ==
    [pc |-> "idle", op |-> "", manager |-> "", url |-> 0, urgent |-> FALSE, status |-> "",
     session |-> NoSessionData, copy |-> << >>, ok |-> FALSE]
\* the event types whose subscribers are followed
BusEvents == { QUEUE_UPDATED, PROFILE_SCRAPED }
\* EventBus.__init__: no subscribers, no history, no publish under way
NewBus ==
    [subscribers |-> [e \in BusEvents |-> << >>], history |-> [e \in BusEvents |-> 0],
     pc |-> "idle", event |-> "", copy |-> << >>, position |-> 0, registered |-> << >>,
     invoked |-> << >>, raised |-> {}, propagated |-> FALSE]
NewAudit ==
    [plans |-> 0, interventions |-> 0, faults |-> 0, marks |-> 0,
     cooldown_end |-> 0, started |-> << >>, ended |-> << >>, completed |-> {}, records |-> 0]

Init ==
    /\ now \in StartTimes
    /\ current_state = INACTIVE
    /\ state_data = EmptyData
    /\ state_history = << <<"", INACTIVE>> >>
    /\ emitted = << >>
    /\ lastCall = NoCall
    /\ running = FALSE
    /\ thread = 0
    /\ loops = [l \in Loops |-> NewLoop]
    /\ stopper = NoStop
    /\ next_sessions = << >>
    /\ current_session = NoSession
    /\ memory = NewMemory
    /\ special \in SpecialHours
    /\ queue = << >>
    /\ session_callback = FALSE
    /\ processing_lock = 0
    /\ workers = [w \in Workers |-> NewWorker]
    /\ calls = [c \in Callers |-> IdleCall]
    /\ bus = NewBus
    /\ audit = NewAudit

(***************************************************************************)
(* Brain.start, Brain._check_and_activate and the queue-updated handler    *)
(***************************************************************************)
\* a thread of the model that is not running _main_loop: never started, or returned
Unborn(l) == loops[l].pc \in { "unborn", "done" }
FreshLoop == CHOOSE l \in DOMAIN loops : Unborn(l) /\ \A k \in DOMAIN loops : Unborn(k) => l <= k

\* start(): the running flag, self.thread and the threads it leaves
start_running(r) == TRUE
start_thread(r, th) == IF r THEN th ELSE FreshLoop
start_loops(r, ls) == IF r THEN ls ELSE [ls EXCEPT ![FreshLoop] = [NewLoop EXCEPT !.pc = "poll"]]

Start ==
    /\ running \/ \E l \in DOMAIN loops : Unborn(l)
    /\ running' = start_running(running)
    /\ thread' = start_thread(running, thread)
    /\ loops' = start_loops(running, loops)
    /\ emitted' = << >>
    /\ UNCHANGED <<now, smVars, lastCall, stopper, next_sessions, current_session, memory,
                   special, calls, bus, bpVars, audit>>

\* _handle_queue_updated followed by _check_and_activate, for the queue file q:
\* whether it activates
activates(s, q) == s = INACTIVE /\ pending(q) > 0

\* the state machine and the loop threads after a queue-updated event with queue file q
QueueUpdated(q) ==
    IF activates(current_state, q)
    THEN /\ Transition(WAITING_FOR_ACTIVE_HOURS, NoData)
         /\ running \/ \E l \in DOMAIN loops : Unborn(l)
         /\ running' = start_running(running)
         /\ thread' = start_thread(running, thread)
         /\ loops' = start_loops(running, loops)
    ELSE UNCHANGED <<smVars, running, thread, loops>>

queue_updated_events(s, q) ==
    << Event(QUEUE_UPDATED, "", "", 0) >>
        \o (IF activates(s, q) THEN transition_events(s, WAITING_FOR_ACTIVE_HOURS) ELSE << >>)

\* BatchProcessor.add_profiles with one valid URL
Submit ==
    \E url \in Urls, urgent \in SubmitUrgency :
        /\ queue' = add_profile(queue, url, urgent, now)
        /\ QueueUpdated(queue')
        /\ emitted' = queue_updated_events(current_state, queue')
        /\ audit' = [audit EXCEPT !.completed = @ \ { url }]
        /\ UNCHANGED <<now, lastCall, stopper, next_sessions, current_session, memory, special, calls, bus,
                       session_callback, processing_lock, workers>>

\* BatchProcessor.register_session_callback
RegisterCallback ==
    /\ ~session_callback
    /\ session_callback' = TRUE
    /\ emitted' = << >>
    /\ UNCHANGED <<now, smVars, lastCall, brainVars, calls, bus, queue, processing_lock, workers, audit>>

\* state_machine.transition(STATES["ERROR"], "x") by a caller outside the scheduler
ForceError ==
    /\ audit.interventions < MaxInterventions
    /\ Transition(ERROR, NoData)
    /\ emitted' = transition_events(current_state, ERROR)
    /\ audit' = [audit EXCEPT !.interventions = @ + 1]
    /\ UNCHANGED <<now, lastCall, brainVars, calls, bus, bpVars>>

(***************************************************************************)
(* Brain.session_started and Brain.session_ended                           *)
(***************************************************************************)
Planned(id) == \E i \in 1 .. Len(next_sessions) : next_sessions[i].id = id
PlanOf(id) ==
    next_sessions[CHOOSE i \in 1 .. Len(next_sessions) :
                      /\ next_sessions[i].id = id
                      /\ \A j \in 1 .. i - 1 : next_sessions[j].id # id]

UnbornWorker(w) == workers[w].pc = "unborn"
FreshWorker == CHOOSE w \in Workers : UnbornWorker(w) /\ \A k \in Workers : UnbornWorker(k) => w <= k

\* BatchProcessor._handle_session_started: a thread for _process_session, if a callback is set
spawns(cb) == cb

\* session_started(id): the plan leaves next_sessions and becomes the current session,
\* session-started is published and the BatchProcessor spawns the session thread
SessionStarted(id) ==
    IF Planned(id)
    THEN /\ next_sessions' = SelectSeq(next_sessions, LAMBDA p : p.id # id)
         /\ current_session' = [NoSession EXCEPT !.id = id, !.start_time = now]
         /\ IF spawns(session_callback)
            THEN /\ \E w \in Workers : UnbornWorker(w)
                 /\ workers' = [workers EXCEPT ![FreshWorker] =
                                   [NewWorker EXCEPT !.pc = "spawned", !.id = id,
                                                     !.profiles = PlanOf(id).profiles]]
            ELSE UNCHANGED workers
         /\ audit' = [audit EXCEPT !.started = Append(@, id)]
         /\ emitted' = << Event(SESSION_STARTED, "", "", id) >>
    ELSE /\ UNCHANGED <<next_sessions, current_session, workers, audit>>
         /\ emitted' = << >>

session_matches_any(cur, id) == cur.id # 0
\* whether session_ended(id, stats) accepts the id
session_matches(cur, id) == cur.id # 0 /\ cur.id = id

\* the state the transition of session_ended asks for
session_end_target == COOLDOWN_PERIOD

(***************************************************************************)
(* Brain._main_loop, one thread l                                          *)
(***************************************************************************)
ERROR_BACKOFF == 30
SAFETY_SLEEP == 10
WAITING_SLEEP_CAP == 300
COOLDOWN_SLEEP_CAP == 60
JOIN_TIMEOUT == 5

\* (a sleep has run out;) while self.running:
\* current_state = self.state_machine.get_current_state()
LoopPoll(l) ==
    /\ loops[l].pc = "poll" \/ (loops[l].pc = "sleep" /\ now >= loops[l].wake)
    /\ loops' = [loops EXCEPT ![l] =
                    IF running THEN [@ EXCEPT !.pc = "handle", !.seen = current_state]
                    ELSE [NewLoop EXCEPT !.pc = "done"]]
    /\ stopper' = IF ~running /\ stopper.pc = "join" /\ stopper.tid = l
                  THEN [stopper EXCEPT !.deadline = now]
                  ELSE stopper
    /\ emitted' = << >>
    /\ UNCHANGED <<now, smVars, lastCall, running, thread, next_sessions,
                   current_session, memory, special, calls, bus, bpVars, audit>>

\* the seconds _handle_waiting_for_active_hours waits for the next active hour
waiting_seconds(t) ==
    LET later == { h \in ACTIVE_HOURS : h > HourOf(t) }
        least(S) == CHOOSE h \in S : \A k \in S : h <= k
    IN  IF later # {} THEN ReplaceHour(t, least(later)) - t
        ELSE ReplaceHour(t, least(ACTIVE_HOURS)) + 24 * 3600 - t

\* _handle_waiting_for_active_hours
handle_waiting_for_active_hours(l) ==
    /\ IF HourOf(now) \in ACTIVE_HOURS
       THEN /\ Transition(PLANNING_NEXT_SESSION, NoData)
            /\ emitted' = transition_events(current_state, PLANNING_NEXT_SESSION)
            /\ loops' = [loops EXCEPT ![l].pc = "poll"]
       ELSE /\ UNCHANGED smVars
            /\ emitted' = << >>
            /\ loops' = [loops EXCEPT ![l].pc = "sleep",
                                      ![l].wake = now + Min(waiting_seconds(now), WAITING_SLEEP_CAP)]
    /\ UNCHANGED <<next_sessions, current_session, memory, workers, audit>>

\* _handle_planning_next_session from the computation of the start time on, for the
\* numbers random draws: the plan, the event, the transition and the sleep
plan_session(l, random_offset, random_delay, rand) ==
    LET next_session_time ==
            calculate_next_session_time(now, memory, special, random_offset, random_delay)
        session_type == select_session_type(rand)
        profiles == get_next_profiles(queue, session_type.max_profiles)
        session_plan ==
            [id |-> now, type |-> session_type.name,
             planned_start_time |-> next_session_time,
             max_profiles |-> session_type.max_profiles,
             profiles |-> [i \in 1 .. Len(profiles) |-> profiles[i].url]]
    IN  /\ audit.plans < MaxSessions
        /\ next_sessions' = Append(next_sessions, session_plan)
        /\ Transition(SESSION_STARTING, PlanData(session_plan))
        /\ emitted' = << Event(SESSION_PLANNED, "", "", session_plan.id) >>
                         \o transition_events(current_state, SESSION_STARTING)
        /\ loops' = [loops EXCEPT ![l].pc = "sleep", ![l].wake = next_session_time]
        /\ audit' = [audit EXCEPT !.plans = @ + 1]
        /\ UNCHANGED <<current_session, memory, workers>>

\* the branch of _handle_planning_next_session for a queue with nothing pending
plan_nothing(l) ==
    /\ Transition(WAITING_FOR_ACTIVE_HOURS, NoData)
    /\ emitted' = transition_events(current_state, WAITING_FOR_ACTIVE_HOURS)
    /\ loops' = [loops EXCEPT ![l].pc = "poll"]
    /\ UNCHANGED <<next_sessions, current_session, memory, workers, audit>>

\* _handle_planning_next_session
handle_planning_next_session(l) ==
    IF pending(queue) = 0
    THEN plan_nothing(l)
    ELSE \E random_offset \in OffsetDraws, random_delay \in DelayDraws, rand \in RandDraws :
            plan_session(l, random_offset, random_delay, rand)

\* _handle_cooldown_period
handle_cooldown_period(l) ==
    /\ IF HourOf(now) \notin ACTIVE_HOURS
       THEN /\ Transition(WAITING_FOR_ACTIVE_HOURS, NoData)
            /\ emitted' = transition_events(current_state, WAITING_FOR_ACTIVE_HOURS)
            /\ loops' = [loops EXCEPT ![l].pc = "poll"]
       ELSE LET cooldown_end == IF state_data.kind = "cooldown" THEN state_data.cooldown_end ELSE now
            IN  IF now >= cooldown_end
                THEN /\ Transition(PLANNING_NEXT_SESSION, NoData)
                     /\ emitted' = transition_events(current_state, PLANNING_NEXT_SESSION)
                     /\ loops' = [loops EXCEPT ![l].pc = "poll"]
                ELSE /\ UNCHANGED smVars
                     /\ emitted' = << >>
                     /\ loops' = [loops EXCEPT ![l].pc = "sleep",
                                               ![l].wake = now + Min(cooldown_end - now, COOLDOWN_SLEEP_CAP)]
    /\ UNCHANGED <<next_sessions, current_session, memory, workers, audit>>

\* _handle_error_state, up to its sleep
handle_error_state(l) ==
    /\ loops' = [loops EXCEPT ![l].pc = "backoff", ![l].wake = now + ERROR_BACKOFF]
    /\ emitted' = << >>
    /\ UNCHANGED <<smVars, next_sessions, current_session, memory, workers, audit>>

\* the SESSION_STARTING branch of _main_loop, up to session_started
handle_session_starting(l) ==
    IF state_data.kind = "session_plan" /\ now >= state_data.plan.planned_start_time
    THEN /\ SessionStarted(state_data.plan.id)
         /\ loops' = [loops EXCEPT ![l].pc = "starting", ![l].sid = state_data.plan.id]
         /\ UNCHANGED <<smVars, memory>>
    ELSE /\ loops' = [loops EXCEPT ![l].pc = "poll"]
         /\ emitted' = << >>
         /\ UNCHANGED <<smVars, next_sessions, current_session, memory, workers, audit>>

\* one pass of the if/elif chain of _main_loop on the state the loop read
LoopHandle(l) ==
    /\ loops[l].pc = "handle"
    /\ CASE loops[l].seen = WAITING_FOR_ACTIVE_HOURS -> handle_waiting_for_active_hours(l)
         [] loops[l].seen = PLANNING_NEXT_SESSION -> handle_planning_next_session(l)
         [] loops[l].seen = COOLDOWN_PERIOD -> handle_cooldown_period(l)
         [] loops[l].seen = ERROR -> handle_error_state(l)
         [] loops[l].seen = SESSION_STARTING -> handle_session_starting(l)
         [] OTHER -> /\ loops' = [loops EXCEPT ![l].pc = "poll"]
                     /\ emitted' = << >>
                     /\ UNCHANGED <<smVars, next_sessions, current_session, memory, workers, audit>>
    /\ UNCHANGED <<now, lastCall, running, thread, stopper, special, calls, bus, queue, session_callback,
                   processing_lock>>

\* after session_started: the transition to FEED_BROWSING that carries the session id
LoopStarted(l) ==
    /\ loops[l].pc = "starting"
    /\ Transition(FEED_BROWSING, SessionIdData(loops[l].sid))
    /\ emitted' = transition_events(current_state, FEED_BROWSING)
    /\ loops' = [loops EXCEPT ![l].pc = "poll", ![l].sid = 0]
    /\ UNCHANGED <<now, lastCall, running, thread, stopper, next_sessions, current_session,
                   memory, special, calls, bus, bpVars, audit>>

\* _handle_error_state after its sleep: back to WAITING_FOR_ACTIVE_HOURS
LoopRecover(l) ==
    /\ loops[l].pc = "backoff"
    /\ now >= loops[l].wake
    /\ Transition(WAITING_FOR_ACTIVE_HOURS, NoData)
    /\ emitted' = transition_events(current_state, WAITING_FOR_ACTIVE_HOURS)
    /\ loops' = [loops EXCEPT ![l].pc = "poll"]
    /\ UNCHANGED <<now, lastCall, running, thread, stopper, next_sessions, current_session,
                   memory, special, calls, bus, bpVars, audit>>

\* the states whose branch of _main_loop runs code that can raise
FaultStates ==
    { WAITING_FOR_ACTIVE_HOURS, PLANNING_NEXT_SESSION, COOLDOWN_PERIOD, ERROR, SESSION_STARTING }

\* a handler raises before it has changed anything: the except branch of _main_loop,
\* up to its sleep
LoopFault(l) ==
    /\ loops[l].pc = "handle"
    /\ loops[l].seen \in FaultStates
    /\ audit.faults < MaxFaults
    /\ Transition(ERROR, ErrorData(audit.faults + 1))
    /\ emitted' = transition_events(current_state, ERROR)
    /\ loops' = [loops EXCEPT ![l].pc = "sleep", ![l].wake = now + SAFETY_SLEEP]
    /\ audit' = [audit EXCEPT !.faults = @ + 1]
    /\ UNCHANGED <<now, lastCall, running, thread, stopper, next_sessions, current_session,
                   memory, special, calls, bus, bpVars>>

(***************************************************************************)
(* Brain.stop                                                              *)
(***************************************************************************)
\* stop() up to thread.join(timeout=5.0); a stop() while not running returns at once
StopBegin ==
    /\ stopper.pc = "idle"
    /\ IF running
       THEN /\ audit.interventions < MaxInterventions
            /\ running' = FALSE
            /\ stopper' = [pc |-> "join", deadline |-> now + JOIN_TIMEOUT, tid |-> thread]
            /\ audit' = [audit EXCEPT !.interventions = @ + 1]
       ELSE UNCHANGED <<running, stopper, audit>>
    /\ emitted' = << >>
    /\ UNCHANGED <<now, smVars, lastCall, thread, loops, next_sessions, current_session,
                   memory, special, calls, bus, bpVars>>

\* the state stop() asks for once the join is over
stop_target == INACTIVE

\* the join returns (the thread ended, which LoopPoll reports by bringing the deadline
\* forward, or the timeout ran out); stop() resets the state
StopJoin ==
    /\ stopper.pc = "join"
    /\ now >= stopper.deadline
    /\ IF current_state # INACTIVE
       THEN /\ Transition(stop_target, NoData)
            /\ emitted' = transition_events(current_state, stop_target)
       ELSE /\ UNCHANGED smVars
            /\ emitted' = << >>
    /\ stopper' = NoStop
    /\ UNCHANGED <<now, lastCall, running, thread, loops, next_sessions, current_session,
                   memory, special, calls, bus, bpVars, audit>>

(***************************************************************************)
(* BatchProcessor._process_session, one thread w                           *)
(***************************************************************************)
\* a session thread that enters the callback without waiting for the lock
WorkerAcquire_unlocked(w) ==
    /\ workers[w].pc = "spawned"
    /\ processing_lock' = w
    /\ workers' = [workers EXCEPT ![w].pc = "executing"]
    /\ emitted' = << >>
    /\ UNCHANGED <<now, smVars, lastCall, brainVars, calls, bus, queue, session_callback, audit>>

\* with self.processing_lock: the callback is entered
WorkerAcquire(w) ==
    /\ workers[w].pc = "spawned"
    /\ processing_lock = 0
    /\ processing_lock' = w
    /\ workers' = [workers EXCEPT ![w].pc = "executing"]
    /\ emitted' = << >>
    /\ UNCHANGED <<now, smVars, lastCall, brainVars, calls, bus, queue, session_callback, audit>>

\* the events mark_profile_status publishes, and what _handle_profile_scraped and
\* _handle_profile_failed make of them
WorkerMark(w) ==
    \E i \in 1 .. Len(workers[w].profiles), status \in { "completed", "failed" } :
        LET url == workers[w].profiles[i]
        IN  /\ workers[w].pc = "executing"
            /\ audit.marks < MaxMarks
            /\ InQueue(queue, url)
            /\ queue' = mark_profile_status(queue, url, status)
            /\ emitted' = << Event(IF status = "completed" THEN PROFILE_SCRAPED ELSE PROFILE_FAILED,
                                   "", "", url) >>
            /\ IF current_session.id # 0
               THEN /\ current_session' =
                        IF status = "completed"
                        THEN [current_session EXCEPT !.profiles_completed = @ + 1]
                        ELSE [current_session EXCEPT !.profiles_failed = @ + 1]
                    /\ memory' = update_memory_with_profile(memory, url, status)
               ELSE UNCHANGED <<current_session, memory>>
            /\ audit' = [audit EXCEPT !.marks = @ + 1,
                                      !.completed = IF status = "completed" THEN @ \cup { url } ELSE @]
            /\ UNCHANGED <<now, smVars, lastCall, running, thread, loops, stopper, next_sessions,
                           special, calls, bus, session_callback, processing_lock, workers>>

\* the callback returns, or raises and leaves stats["error"]; the lock is released;
\* finally: self.brain.session_ended(session_id, stats)
WorkerEnd(w) ==
    /\ workers[w].pc = "executing"
    /\ workers' = [workers EXCEPT ![w].pc = "done"]
    /\ processing_lock' = 0
    /\ IF session_matches(current_session, workers[w].id)
       THEN \E cooldown_minutes \in CooldownDraws, raised \in Raises :
               LET cooldown_end == now + cooldown_minutes * 60
                   summary == [id |-> current_session.id,
                               start_time |-> current_session.start_time,
                               end_time |-> now,
                               error |-> raised]
               IN  /\ memory' = update_memory_with_session(memory, summary)
                   /\ Transition(session_end_target, CooldownData(current_session.id, cooldown_end))
                   /\ emitted' = << Event(SESSION_ENDED, "", "", current_session.id) >>
                                    \o transition_events(current_state, session_end_target)
                   /\ current_session' = NoSession
                   /\ audit' = [audit EXCEPT !.ended = Append(@, workers[w].id),
                                             !.cooldown_end = cooldown_end]
       ELSE /\ emitted' = << >>
            /\ audit' = [audit EXCEPT !.ended = Append(@, workers[w].id)]
            /\ UNCHANGED <<smVars, memory, current_session>>
    /\ UNCHANGED <<now, lastCall, running, thread, loops, stopper, next_sessions, special, calls, bus,
                   queue, session_callback>>

(***************************************************************************)
(* The clock: it moves to the next instant something is waiting for.       *)
(***************************************************************************)
Deadlines ==
    { loops[l].wake : l \in { k \in DOMAIN loops : loops[k].pc \in { "sleep", "backoff" } } }
        \cup { next_sessions[i].planned_start_time : i \in 1 .. Len(next_sessions) }
        \cup (IF stopper.pc = "join" THEN { stopper.deadline } ELSE {})
        \cup { (now \div 3600 + 1) * 3600 }

Tick ==
    /\ \E t \in Deadlines :
          /\ t > now
          /\ \A u \in Deadlines : u > now => t <= u
          /\ t <= EndOfTime(now)
          /\ now' = t
    /\ emitted' = << >>
    /\ UNCHANGED <<smVars, lastCall, brainVars, calls, bus, bpVars, audit>>

Next ==
    \/ Start
    \/ StopBegin
    \/ StopJoin
    \/ Submit
    \/ RegisterCallback
    \/ ForceError
    \/ \E l \in Loops : LoopPoll(l)
    \/ \E l \in Loops : LoopHandle(l)
    \/ \E l \in Loops : LoopStarted(l)
    \/ \E l \in Loops : LoopRecover(l)
    \/ \E l \in Loops : LoopFault(l)
    \/ \E w \in Workers : WorkerAcquire(w)
    \/ \E w \in Workers : WorkerMark(w)
    \/ \E w \in Workers : WorkerEnd(w)
    \/ Tick

Spec == Init /\ [][Next]_vars

(***************************************************************************)
(* The state machine on its own: any caller, any target, any payload.      *)
(***************************************************************************)
SMPayloads == { NoData, ErrorData(1), SessionIdData(1) }

SMInit == Init

SMTransition ==
    \E t \in STATES, data \in SMPayloads :
        /\ Transition(t, data)
        /\ emitted' = transition_events(current_state, t)
        /\ lastCall' = [op |-> "transition", target |-> t,
                        ok |-> transition_allowed(current_state, t), value |-> data]
        /\ UNCHANGED <<now, brainVars, calls, bus, bpVars, audit>>

SMNext == SMTransition

SpecSM == SMInit /\ [][SMNext]_vars

(***************************************************************************)
(* The start-time computation on its own: any time of day, any draw of the *)
(* special hours, and a memory file that holds up to CalcSessions sessions *)
(* of the current hour, the last of which ended at most                    *)
(* MINIMUM_SESSION_SPACING seconds ago.                                    *)
(***************************************************************************)
CalcSessions == 3
CalcTimes == { h * 3600 + m : h \in 0 .. 23, m \in { 0, 1799, 3599 } }
CalcSpecial ==
    { [three |-> a, ones |-> o] : a \in 10 .. 19, o \in { {10, 11}, {12, 19}, {15, 19} } }
CalcAges == { 0, MINIMUM_SESSION_SPACING - 1, MINIMUM_SESSION_SPACING }

CalcSummary(t, age) ==
    StoredSession(DateOf(t), HourOf(t),
                  [id |-> 1, start_time |-> ReplaceHour(t, HourOf(t)),
                   end_time |-> Max(t - age, ReplaceHour(t, HourOf(t))), error |-> FALSE])

CalcInit ==
    /\ now \in CalcTimes
    /\ special \in { sp \in CalcSpecial : sp.three \notin sp.ones }
    /\ \E n \in 0 .. CalcSessions, age \in CalcAges :
          memory = [NewMemory EXCEPT !.sessions = [i \in 1 .. n |-> CalcSummary(now, age)],
                                     !.total_sessions = n]
    /\ current_state = INACTIVE
    /\ state_data = EmptyData
    /\ state_history = << <<"", INACTIVE>> >>
    /\ emitted = << >>
    /\ lastCall = NoCall
    /\ running = FALSE
    /\ thread = 0
    /\ loops = [l \in Loops |-> NewLoop]
    /\ stopper = NoStop
    /\ next_sessions = << >>
    /\ current_session = NoSession
    /\ queue = << >>
    /\ session_callback = FALSE
    /\ processing_lock = 0
    /\ workers = [w \in Workers |-> NewWorker]
    /\ calls = [c \in Callers |-> IdleCall]
    /\ bus = NewBus
    /\ audit = NewAudit

Calculate ==
    \E random_offset \in OffsetDraws, random_delay \in DelayDraws :
        /\ lastCall' = [op |-> "calculate", target |-> "", ok |-> TRUE,
                        value |-> calculate_next_session_time(now, memory, special,
                                                              random_offset, random_delay)]
        /\ UNCHANGED <<now, smVars, emitted, brainVars, calls, bus, bpVars, audit>>

CalcNext == Calculate

SpecCalc == CalcInit /\ [][CalcNext]_vars

\* sessions_this_hour >= target_sessions at the time of the call
HourFull == Len(HourSessions(memory, DateOf(now), HourOf(now))) >= target_sessions(special, HourOf(now))

(***************************************************************************)
(* C1  A transition to a state outside the adjacency set of the current    *)
(* state returns false, leaves current_state, state_data and the history   *)
(* as they were, and publishes no state-changed event.                     *)
(***************************************************************************)
C1_InvalidTransitionRejected ==
    [][ (lastCall'.op = "transition" /\ lastCall'.target \notin valid_transitions(current_state))
            => /\ lastCall'.ok = FALSE
               /\ UNCHANGED smVars
               /\ \A i \in 1 .. Len(emitted') : emitted'[i].type # SYSTEM_STATE_CHANGED ]_vars

\* a rejected transition has been attempted from a state that has outgoing edges
C1_Witness ==
    /\ lastCall.op = "transition"
    /\ lastCall.ok = FALSE
    /\ lastCall.target = COOLDOWN_PERIOD
    /\ current_state = FEED_BROWSING

(***************************************************************************)
(* The scheduler left to itself: profiles are submitted and a callback may *)
(* be registered, nobody calls stop() or forces a state from outside.  The *)
(* threads and the clock have the scheduling they can count on: a loop     *)
(* thread or a session thread that can take a step eventually takes it,    *)
(* and time passes.  Nothing is assumed of the callers.                    *)
(***************************************************************************)
QuietNext ==
    \/ Submit
    \/ RegisterCallback
    \/ \E l \in Loops : LoopPoll(l)
    \/ \E l \in Loops : LoopHandle(l)
    \/ \E l \in Loops : LoopStarted(l)
    \/ \E l \in Loops : LoopRecover(l)
    \/ \E l \in Loops : LoopFault(l)
    \/ \E w \in Workers : WorkerAcquire(w)
    \/ \E w \in Workers : WorkerMark(w)
    \/ \E w \in Workers : WorkerEnd(w)
    \/ Tick

Fairness ==
    /\ \A l \in Loops : /\ WF_vars(LoopPoll(l))
                        /\ WF_vars(LoopHandle(l))
                        /\ WF_vars(LoopStarted(l))
                        /\ WF_vars(LoopRecover(l))
    /\ \A w \in Workers : WF_vars(WorkerAcquire(w)) /\ WF_vars(WorkerEnd(w))
    /\ WF_vars(Tick)

SpecFair == Init /\ [][QuietNext]_vars /\ Fairness

\* the step is a session_ended(id, stats) call, id the last entry of the log of these calls
SessionEndedCall == Len(audit'.ended) = Len(audit.ended) + 1
EndedId == audit'.ended[Len(audit'.ended)]

(***************************************************************************)
(* C2  session_ended with the id of the current session, called in the     *)
(* executing state FEED_BROWSING: the summary is appended to memory, a     *)
(* session-ended event is published and the state becomes COOLDOWN_PERIOD  *)
(* with the cooldown end time in state_data.                               *)
(***************************************************************************)
C2_SessionEndedEntersCooldown ==
    [][ (/\ SessionEndedCall
         /\ session_matches(current_session, EndedId)
         /\ current_state = FEED_BROWSING)
            => /\ Len(memory'.sessions) = Len(memory.sessions) + 1
               /\ memory'.sessions[Len(memory'.sessions)].id = current_session.id
               /\ \E i \in 1 .. Len(emitted') :
                     emitted'[i].type = SESSION_ENDED /\ emitted'[i].id = current_session.id
               /\ current_state' = COOLDOWN_PERIOD
               /\ state_data'.kind = "cooldown"
               /\ state_data'.cooldown_end = audit'.cooldown_end ]_vars

(***************************************************************************)
(* C3  Whenever the state machine is in the executing state FEED_BROWSING  *)
(* for a session that a session thread executes, it eventually reaches     *)
(* COOLDOWN_PERIOD: it is never left stuck in the executing state.         *)
(***************************************************************************)
Executing ==
    /\ current_state = FEED_BROWSING
    /\ \E w \in Workers : workers[w].pc # "unborn" /\ workers[w].id = state_data.session_id

C3_ExecutingLeadsToCooldown == Executing ~> (current_state = COOLDOWN_PERIOD)

(***************************************************************************)
(* C4  Every session-started event is followed by exactly one              *)
(* session_ended call with the id of that session.                         *)
(***************************************************************************)
EndedCalls(id) == Cardinality({ j \in 1 .. Len(audit.ended) : audit.ended[j] = id })

C4_StartedSessionIsEndedOnce ==
    /\ [](\A n \in 1 .. Len(audit.started) : EndedCalls(audit.started[n]) <= 1)
    /\ \A n \in 1 .. MaxSessions :
          (Len(audit.started) >= n)
              ~> (Len(audit.started) >= n /\ EndedCalls(audit.started[n]) = 1)

(***************************************************************************)
(* C5  When the sessions recorded for the current date and hour have       *)
(* reached the target of the hour, the start time returned lies in a       *)
(* strictly later hour, in an active hour, within the first 15 minutes of  *)
(* that hour.                                                              *)
(***************************************************************************)
C5_FullHourPlansLaterHour ==
    (lastCall.op = "calculate" /\ HourFull)
        => /\ lastCall.value \div 3600 > now \div 3600
           /\ HourOf(lastCall.value) \in ACTIVE_HOURS
           /\ lastCall.value % 3600 <= 15 * 60

\* the one-session hour 19:00 is full at 19:59:59 and the plan is for 20:15:00
C5_Witness ==
    /\ lastCall.op = "calculate"
    /\ HourFull
    /\ HourOf(now) = 19
    /\ 19 \in special.ones
    /\ Len(memory.sessions) = 1
    /\ lastCall.value = 20 * 3600 + 15 * 60

(***************************************************************************)
(* C6  In every reachable state, no (date, hour) holds more recorded       *)
(* sessions than the target of that hour.                                  *)
(***************************************************************************)
C6_SessionsWithinTarget ==
    \A i \in 1 .. Len(memory.sessions) :
        LET t == memory.sessions[i].start_time
        IN  Len(HourSessions(memory, DateOf(t), HourOf(t))) <= target_sessions(special, HourOf(t))

(***************************************************************************)
(* C7  Two consecutive recorded sessions that start in the same hour of    *)
(* the same day: the later one starts at least MINIMUM_SESSION_SPACING     *)
(* seconds after the earlier one ended.                                    *)
(***************************************************************************)
C7_MinimumSpacing ==
    \A i \in 1 .. Len(memory.sessions) - 1 :
        LET a == memory.sessions[i]
            b == memory.sessions[i + 1]
        IN  (DateOf(a.start_time) = DateOf(b.start_time) /\ HourOf(a.start_time) = HourOf(b.start_time))
                => b.start_time >= a.end_time + MINIMUM_SESSION_SPACING

(***************************************************************************)
(* C8  Once a session has ended with cooldown end time T, the state        *)
(* machine does not enter PLANNING_NEXT_SESSION and no plan is made before *)
(* T; COOLDOWN_PERIOD is left for PLANNING_NEXT_SESSION only when T has    *)
(* passed in an active hour, for WAITING_FOR_ACTIVE_HOURS only outside the *)
(* active hours.                                                           *)
(***************************************************************************)
C8_NoPlanningBeforeCooldownEnd ==
    [][ /\ (audit.cooldown_end > 0 /\ now < audit.cooldown_end)
            => /\ ~(current_state # PLANNING_NEXT_SESSION /\ current_state' = PLANNING_NEXT_SESSION)
               /\ audit'.plans = audit.plans
        /\ (current_state = COOLDOWN_PERIOD /\ current_state' = PLANNING_NEXT_SESSION)
            => (now >= state_data.cooldown_end /\ HourOf(now) \in ACTIVE_HOURS)
        /\ (current_state = COOLDOWN_PERIOD /\ current_state' = WAITING_FOR_ACTIVE_HOURS)
            => HourOf(now) \notin ACTIVE_HOURS ]_vars

(***************************************************************************)
(* C9  When a stop() call that found the scheduler running returns, the    *)
(* state is INACTIVE, whatever it was when stop() was called (a stop()     *)
(* that finds the scheduler stopped returns at once and touches nothing).  *)
(***************************************************************************)
C9_StopLeavesInactive ==
    [][ (stopper.pc = "join" /\ stopper'.pc = "idle") => current_state' = INACTIVE ]_vars

(***************************************************************************)
(* C10  While the scheduler is running, the state ERROR is left only by    *)
(* the recovery of the loop: for WAITING_FOR_ACTIVE_HOURS, the history     *)
(* then ending with (x -> ERROR), (ERROR -> WAITING_FOR_ACTIVE_HOURS).     *)
(***************************************************************************)
C10_ErrorRecoversToWaiting ==
    [][ (running /\ current_state = ERROR /\ current_state' # ERROR)
            => /\ current_state' = WAITING_FOR_ACTIVE_HOURS
               /\ Len(state_history') >= 2
               /\ state_history'[Len(state_history')] = <<ERROR, WAITING_FOR_ACTIVE_HOURS>>
               /\ state_history'[Len(state_history') - 1][2] = ERROR ]_vars

\* the step is the except branch of _main_loop: a handler has raised
FaultCaught == audit'.faults = audit.faults + 1

(***************************************************************************)
(* C11  An exception raised inside a state handler is caught by the loop:  *)
(* the state becomes ERROR with the error and traceback of that exception  *)
(* as state_data, whatever the state was (ERROR included), and the loop    *)
(* thread goes on; a loop thread returns only when the running flag is     *)
(* cleared.                                                                *)
(***************************************************************************)
C11_FaultEntersError ==
    [][ /\ FaultCaught
            => /\ current_state' = ERROR
               /\ state_data' = ErrorData(audit'.faults)
               /\ \A l \in Loops : loops[l].pc = "handle" => loops'[l].pc # "done"
        /\ \A l \in Loops : (~Unborn(l) /\ loops'[l].pc = "done") => ~running ]_vars

\* the states the adjacency table of the state machine has a row for
OperatingStates ==
    { INACTIVE, WAITING_FOR_ACTIVE_HOURS, PLANNING_NEXT_SESSION, SESSION_STARTING,
      FEED_BROWSING, PROFILE_SCRAPING, SESSION_ENDING, COOLDOWN_PERIOD, ERROR }
\* the targets the row of ERROR holds
RecoveryStates == { INACTIVE, WAITING_FOR_ACTIVE_HOURS, PLANNING_NEXT_SESSION }

C13_StateDataReplaced ==
    [][ (lastCall'.op = "transition" /\ lastCall'.ok)
            => state_data' = (IF lastCall'.value = NoData THEN EmptyData ELSE lastCall'.value) ]_vars

(***************************************************************************)
(* The QueueManager on its own: one caller at a time adds keys, marks      *)
(* statuses and reads the queue, as the lock of the QueueManager           *)
(* serialises them; a call is over when its caller has taken the result.   *)
(* The Brain's handlers of the events the calls publish run inside the     *)
(* call.  No session is current, so the handlers of profile-scraped and    *)
(* profile-failed return at once.                                          *)
(***************************************************************************)
\* the largest count a caller asks get_next_profiles for
MaxCount == 3
\* seconds of wall clock the callers spread their calls over
QueueSpan == 1
\* the keys the callers use: p1, p2 and p3
QueueUrls == { 1, 2, 3 }
\* the status argument of mark_profile_status
MarkStatuses == { "in_progress", "completed", "failed" }

\* statistics that count the completed entries by their status field
get_queue_stats_by_status(q) ==
    [total |-> Len(q),
     pending |-> Cardinality({ i \in 1 .. Len(q) : ~q[i].done }),
     completed |-> Cardinality({ i \in 1 .. Len(q) : q[i].status = "completed" }),
     urgent |-> Cardinality({ i \in 1 .. Len(q) : q[i].urgent /\ ~q[i].done })]

\* get_queue_stats(), without status_counts and last_updated
get_queue_stats(q) ==
    [total |-> Len(q),
     pending |-> Cardinality({ i \in 1 .. Len(q) : ~q[i].done }),
     completed |-> Cardinality({ i \in 1 .. Len(q) : q[i].done }),
     urgent |-> Cardinality({ i \in 1 .. Len(q) : q[i].urgent /\ ~q[i].done })]

\* every mark publishes queue-updated
mark_event_updated(status) == QUEUE_UPDATED

\* the event mark_profile_status publishes for a status
mark_event(status) ==
    IF status = "completed" THEN PROFILE_SCRAPED
    ELSE IF status = "failed" THEN PROFILE_FAILED
    ELSE QUEUE_UPDATED

QueueInit == Init /\ \A s \in StartTimes : now <= s

\* no call of the QueueManager is waiting for its caller
QueueIdle == lastCall.op = "none"

\* add_profile(url, urgent)
QueueAdd ==
    \E url \in QueueUrls, urgent \in BOOLEAN :
        /\ QueueIdle
        /\ queue' = add_profile(queue, url, urgent, now)
        /\ QueueUpdated(queue')
        /\ emitted' = queue_updated_events(current_state, queue')
        /\ lastCall' = [op |-> "add", target |-> "", ok |-> TRUE,
                        value |-> [url |-> url, urgent |-> urgent]]
        /\ audit' = [audit EXCEPT !.completed = @ \ { url }]
        /\ UNCHANGED <<now, stopper, next_sessions, current_session, memory, special, calls, bus,
                       session_callback, processing_lock, workers>>

\* mark_profile_status(url, status)
QueueMark ==
    \E url \in QueueUrls, status \in MarkStatuses :
        /\ QueueIdle
        /\ lastCall' = [op |-> "mark", target |-> "", ok |-> InQueue(queue, url),
                        value |-> [url |-> url, status |-> status]]
        /\ IF InQueue(queue, url)
           THEN /\ queue' = mark_profile_status(queue, url, status)
                /\ IF mark_event(status) = QUEUE_UPDATED
                   THEN /\ QueueUpdated(queue')
                        /\ emitted' = queue_updated_events(current_state, queue')
                   ELSE /\ emitted' = << Event(mark_event(status), "", "", url) >>
                        /\ UNCHANGED <<smVars, running, thread, loops>>
                /\ audit' = [audit EXCEPT !.completed =
                                IF status = "completed" THEN @ \cup { url } ELSE @]
           ELSE /\ emitted' = << >>
                /\ UNCHANGED <<queue, smVars, running, thread, loops, audit>>
        /\ UNCHANGED <<now, stopper, next_sessions, current_session, memory, special, calls, bus,
                       session_callback, processing_lock, workers>>

\* get_next_profiles(count)
QueueGetNext ==
    \E count \in 0 .. MaxCount :
        /\ QueueIdle
        /\ lastCall' = [op |-> "next", target |-> "", ok |-> TRUE,
                        value |-> [count |-> count, result |-> get_next_profiles(queue, count)]]
        /\ emitted' = << >>
        /\ UNCHANGED <<now, smVars, brainVars, calls, bus, bpVars, audit>>

\* get_queue_stats()
QueueGetStats ==
    /\ QueueIdle
    /\ lastCall' = [op |-> "stats", target |-> "", ok |-> TRUE, value |-> get_queue_stats(queue)]
    /\ emitted' = << >>
    /\ UNCHANGED <<now, smVars, brainVars, calls, bus, bpVars, audit>>

\* the caller has taken the result of its call
QueueReturn ==
    /\ ~QueueIdle
    /\ lastCall' = NoCall
    /\ emitted' = << >>
    /\ UNCHANGED <<now, smVars, brainVars, calls, bus, bpVars, audit>>

\* time passes between two calls
QueueTick ==
    /\ QueueIdle
    /\ \E s \in StartTimes : s <= now /\ now < s + QueueSpan
    /\ now' = now + 1
    /\ emitted' = << >>
    /\ UNCHANGED <<smVars, lastCall, brainVars, calls, bus, bpVars, audit>>

QueueNext ==
    \/ QueueAdd
    \/ QueueMark
    \/ QueueGetNext
    \/ QueueGetStats
    \/ QueueReturn
    \/ QueueTick

SpecQueue == QueueInit /\ [][QueueNext]_vars

\* the step is a call op of the QueueManager (the clock stands still during a call)
QueueCall(op) == lastCall'.op = op /\ now' = now

NoDuplicates(q) == \A i, j \in 1 .. Len(q) : q[i].url = q[j].url => i = j
PosOf(q, url) == CHOOSE i \in 1 .. Len(q) : q[i].url = url
EntryOf(q, url) == q[PosOf(q, url)]

(***************************************************************************)
(* C14  Under add and mark calls the queue holds exactly one entry for     *)
(* each key ever added: no two entries share a key, no entry is removed    *)
(* or moved, an add leaves its key in the queue, an add of a key that is   *)
(* present leaves the number of entries as it was and, if the entry was    *)
(* completed, leaves it with done = false; an add of a new key adds one    *)
(* entry.                                                                  *)
(***************************************************************************)
C14_OneEntryPerKey ==
    [][ /\ NoDuplicates(queue')
        /\ Len(queue') >= Len(queue)
        /\ \A i \in 1 .. Len(queue) : queue'[i].url = queue[i].url
        /\ QueueCall("add")
            => LET url == lastCall'.value.url
               IN  /\ InQueue(queue', url)
                   /\ InQueue(queue, url)
                        => /\ Len(queue') = Len(queue)
                           /\ EntryOf(queue, url).done => ~EntryOf(queue', url).done
                   /\ ~InQueue(queue, url) => Len(queue') = Len(queue) + 1 ]_vars

\* a key has been added again after it was completed, next to a second key
C14_Witness ==
    /\ lastCall.op = "add"
    /\ Len(queue) = 2
    /\ InQueue(queue, lastCall.value.url)
    /\ EntryOf(queue, lastCall.value.url).status = "completed"
    /\ ~EntryOf(queue, lastCall.value.url).done

\* the order of get_next_profiles among the entries of q: urgent first, then the
\* older entry, then the entry inserted first
ServedBefore(q, a, b) ==
    \/ a.urgent /\ ~b.urgent
    \/ /\ a.urgent = b.urgent
       /\ \/ a.created_at < b.created_at
          \/ a.created_at = b.created_at /\ PosOf(q, a.url) < PosOf(q, b.url)

(***************************************************************************)
(* C15  get_next_profiles(n) returns at most n entries (n of them when     *)
(* that many are pending), all with done = false, urgent entries before    *)
(* the others and, within one urgency, the oldest first, ties in insertion *)
(* order; every pending entry it leaves out comes after the ones it        *)
(* returns; the queue is not modified.                                     *)
(***************************************************************************)
C15_NextIsUrgentFirstFifo ==
    [][ QueueCall("next")
            => LET n == lastCall'.value.count
                   r == lastCall'.value.result
               IN  /\ queue' = queue
                   /\ Len(r) <= n
                   /\ Len(r) = Min(n, pending(queue))
                   /\ \A i \in 1 .. Len(r) :
                         /\ ~r[i].done
                         /\ InQueue(queue, r[i].url)
                         /\ r[i] = EntryOf(queue, r[i].url)
                   /\ \A i, j \in 1 .. Len(r) : i < j => ServedBefore(queue, r[i], r[j])
                   /\ \A k \in 1 .. Len(queue) :
                         (~queue[k].done /\ \A i \in 1 .. Len(r) : r[i].url # queue[k].url)
                             => \A i \in 1 .. Len(r) : ServedBefore(queue, r[i], queue[k]) ]_vars

\* A (urgent, early), B (not urgent, early), C (urgent, late): next(3) is [A, C, B]
C15_Witness ==
    /\ lastCall.op = "next"
    /\ lastCall.value.count = 3
    /\ Len(queue) = 3
    /\ queue[1].urgent /\ ~queue[2].urgent /\ queue[3].urgent
    /\ queue[1].created_at = queue[2].created_at
    /\ queue[3].created_at > queue[1].created_at
    /\ lastCall.value.result = << queue[1], queue[3], queue[2] >>

(***************************************************************************)
(* C16  After a successful mark_profile_status(url, s) the done flag of    *)
(* the entry is true exactly when s is "completed".                        *)
(***************************************************************************)
C16_DoneIffCompleted ==
    [][ (QueueCall("mark") /\ lastCall'.ok)
            => (EntryOf(queue', lastCall'.value.url).done <=> lastCall'.value.status = "completed") ]_vars

(***************************************************************************)
(* C17  An add of a key whose entry is completed leaves the entry with     *)
(* status "queued" and done = false; an add of a key whose entry is        *)
(* pending changes nothing of the entry but urgent, which it may raise     *)
(* from false to true and never lowers.                                    *)
(***************************************************************************)
C17_ResubmitResetsToQueued ==
    [][ (QueueCall("add") /\ InQueue(queue, lastCall'.value.url))
            => LET old == EntryOf(queue, lastCall'.value.url)
                   new == EntryOf(queue', lastCall'.value.url)
               IN  IF old.done
                   THEN new.status = "queued" /\ ~new.done
                   ELSE new = [old EXCEPT !.urgent = old.urgent \/ lastCall'.value.urgent] ]_vars

(***************************************************************************)
(* C18  get_queue_stats() reports total = pending + completed, total the   *)
(* number of keys added and completed the number of keys marked completed  *)
(* and not added again since, so n keys of which k were marked completed   *)
(* give completed = k and pending = n - k; get_next_profiles(2) on three   *)
(* entries that were never marked and share one urgency returns the first  *)
(* two in insertion order.                                                 *)
(***************************************************************************)
C18_StatsAddUp ==
    /\ lastCall.op = "stats"
        => /\ lastCall.value.total = lastCall.value.pending + lastCall.value.completed
           /\ lastCall.value.total = Len(queue)
           /\ lastCall.value.completed = Cardinality(audit.completed)
           /\ lastCall.value.pending = Len(queue) - Cardinality(audit.completed)
    /\ (/\ lastCall.op = "next"
        /\ lastCall.value.count = 2
        /\ Len(queue) = 3
        /\ \A i \in 1 .. 3 : queue[i].status = "queued" /\ queue[i].urgent = queue[1].urgent)
        => lastCall.value.result = << queue[1], queue[2] >>

\* three keys, one of them marked completed: completed = 1, pending = 2
C18_Witness ==
    /\ lastCall.op = "stats"
    /\ audit.completed = { 1 }
    /\ lastCall.value = [total |-> 3, pending |-> 2, completed |-> 1, urgent |-> 0]

(***************************************************************************)
(* BatchProcessor.add_profiles on its own: one caller submits lists of     *)
(* URLs, one call after the other, while the executor marks entries        *)
(* completed.  A step of the caller is one pass of the loop over           *)
(* profile_urls; the list is drawn as the loop goes.                       *)
(*                                                                         *)
(* A URL is written as the profile it names and its form:                  *)
(*   canonical  "https://www.linkedin.com/in/<slug>"                       *)
(*   decorated  the canonical form between white space, followed by "/"    *)
(*              and a path or a query                                      *)
(*   bare       "linkedin.com/in/<slug>", without a scheme                 *)
(*   foreign    a URL that does not contain "linkedin.com/in/"             *)
(***************************************************************************)
\* URLs in one add_profiles call
MaxSubmitted == 3
Url(slug, form) == [slug |-> slug, form |-> form]
RawUrls ==
    { Url(1, "canonical"), Url(1, "decorated"), Url(2, "canonical"), Url(1, "bare"),
      Url(3, "foreign") }

\* _clean_profile_url: strip, the check for "linkedin.com/in/" (ok = FALSE when it raises
\* ValueError), the regular expression that keeps scheme, host and slug; a URL the
\* expression does not match is returned stripped
clean_profile_url(url) ==
    IF url.form = "foreign" THEN [ok |-> FALSE, url |-> url]
    ELSE IF url.form \in { "canonical", "decorated" }
         THEN [ok |-> TRUE, url |-> Url(url.slug, "canonical")]
         ELSE [ok |-> TRUE, url |-> url]

\* a comparison of the totals that reports every key as new
classify_always_added(before, after) == IF after >= before THEN "added" ELSE "already_queued"

\* the list a successful add goes to: queue_after["total"] > queue_before["total"]
classify(before, after) == IF after > before THEN "added" ELSE "already_queued"

\* results at the head of add_profiles
NoResults == [success |-> TRUE, added |-> << >>, failed |-> << >>, already_queued |-> << >>]

\* the body of the loop of add_profiles for one URL: the results it leaves
add_profiles_results(q, url, urgent, t, results) ==
    LET clean == clean_profile_url(url)
        queue_before == get_queue_stats(q)
        queue_after == get_queue_stats(add_profile(q, clean.url, urgent, t))
    IN  IF ~clean.ok
        THEN [results EXCEPT !.failed = Append(@, url), !.success = FALSE]
        ELSE IF classify(queue_before.total, queue_after.total) = "added"
             THEN [results EXCEPT !.added = Append(@, clean.url)]
             ELSE [results EXCEPT !.already_queued = Append(@, clean.url)]

\* a caller is inside add_profiles
Submitting == lastCall.op = "submit" /\ lastCall.value.open

\* add_profiles(profile_urls, urgent) is called
SubmitBegin ==
    /\ ~Submitting
    /\ \E urgent \in SubmitUrgency :
          lastCall' = [op |-> "submit", target |-> "", ok |-> TRUE,
                       value |-> [open |-> TRUE, urgent |-> urgent, urls |-> << >>,
                                  results |-> NoResults]]
    /\ emitted' = << >>
    /\ UNCHANGED <<now, smVars, brainVars, calls, bus, bpVars, audit>>

\* one pass of the loop over profile_urls
SubmitUrl ==
    /\ Submitting
    /\ Len(lastCall.value.urls) < MaxSubmitted
    /\ \E url \in RawUrls :
          LET clean == clean_profile_url(url)
              results == add_profiles_results(queue, url, lastCall.value.urgent, now,
                                              lastCall.value.results)
          IN  /\ lastCall' = [lastCall EXCEPT !.ok = results.success,
                                              !.value.urls = Append(@, url),
                                              !.value.results = results]
              /\ IF clean.ok
                 THEN /\ queue' = add_profile(queue, clean.url, lastCall.value.urgent, now)
                      /\ QueueUpdated(queue')
                      /\ emitted' = queue_updated_events(current_state, queue')
                      /\ audit' = [audit EXCEPT !.completed = @ \ { clean.url }]
                 ELSE /\ emitted' = << >>
                      /\ UNCHANGED <<queue, smVars, running, thread, loops, audit>>
    /\ UNCHANGED <<now, stopper, next_sessions, current_session, memory, special, calls, bus,
                   session_callback, processing_lock, workers>>

\* the end of add_profiles: the Brain is activated if a key was added (the state machine
\* the BatchProcessor asks is its own, which stays INACTIVE), and the results are returned
SubmitReturn ==
    /\ Submitting
    /\ lastCall' = [lastCall EXCEPT !.value.open = FALSE]
    /\ IF lastCall.value.results.added # << >> /\ activates(current_state, queue)
       THEN /\ QueueUpdated(queue)
            /\ emitted' = transition_events(current_state, WAITING_FOR_ACTIVE_HOURS)
       ELSE /\ emitted' = << >>
            /\ UNCHANGED <<smVars, running, thread, loops>>
    /\ UNCHANGED <<now, stopper, next_sessions, current_session, memory, special, calls, bus, bpVars,
                   audit>>

\* mark_profile_status(url, "completed") by the executor, for a pending entry of the queue
SubmitMark ==
    \E i \in 1 .. Len(queue) :
        /\ ~queue[i].done
        /\ queue' = mark_profile_status(queue, queue[i].url, "completed")
        /\ emitted' = << Event(PROFILE_SCRAPED, "", "", queue[i].url) >>
        /\ audit' = [audit EXCEPT !.completed = @ \cup { queue[i].url }]
        /\ UNCHANGED <<now, smVars, lastCall, brainVars, calls, bus, session_callback, processing_lock,
                       workers>>

SubmitNext ==
    \/ SubmitBegin
    \/ SubmitUrl
    \/ SubmitReturn
    \/ SubmitMark

SpecSubmit == QueueInit /\ [][SubmitNext]_vars

\* the step is a pass of the loop of add_profiles
UrlSubmitted ==
    /\ Submitting
    /\ lastCall'.op = "submit"
    /\ Len(lastCall'.value.urls) = Len(lastCall.value.urls) + 1

\* the same results with x appended to the list named
Added(res, x) == [res EXCEPT !.added = Append(@, x)]
AlreadyQueued(res, x) == [res EXCEPT !.already_queued = Append(@, x)]
Failed(res, x) == [res EXCEPT !.failed = Append(@, x), !.success = FALSE]

(***************************************************************************)
(* C19  add_profiles reports every submitted URL in exactly one of added,  *)
(* already_queued and failed: a URL that fails validation goes to failed   *)
(* and nowhere else, a key that was not in the queue goes to added, a key  *)
(* that was in the queue (one submitted earlier in the same call           *)
(* included) goes to already_queued; the three lists together hold as      *)
(* many entries as URLs were submitted.                                    *)
(***************************************************************************)
C19_SubmitClassifies ==
    [][ /\ UrlSubmitted
            => LET url == lastCall'.value.urls[Len(lastCall'.value.urls)]
                   key == clean_profile_url(url).url
                   earlier == { clean_profile_url(lastCall.value.urls[j]).url :
                                   j \in { k \in 1 .. Len(lastCall.value.urls) :
                                             lastCall.value.urls[k].form # "foreign" } }
                   old == lastCall.value.results
                   new == lastCall'.value.results
               IN  /\ url.form = "foreign" => new = Failed(old, url)
                   /\ (url.form # "foreign" /\ (InQueue(queue, key) \/ key \in earlier))
                        => new = AlreadyQueued(old, key)
                   /\ (url.form # "foreign" /\ ~InQueue(queue, key)) => new = Added(old, key)
        /\ lastCall'.op = "submit"
            => LET res == lastCall'.value.results
               IN  /\ Len(res.added) + Len(res.already_queued) + Len(res.failed)
                          = Len(lastCall'.value.urls)
                   /\ \A i \in 1 .. Len(res.failed) : res.failed[i].form = "foreign"
                   /\ lastCall'.ok <=> res.failed = << >> ]_vars

\* three fresh keys submitted in one call are all reported as added
C19_Witness ==
    /\ lastCall.op = "submit"
    /\ ~lastCall.value.open
    /\ lastCall.value.urls = << Url(1, "canonical"), Url(2, "canonical"), Url(1, "bare") >>
    /\ lastCall.value.results.added = << Url(1, "canonical"), Url(2, "canonical"), Url(1, "bare") >>
    /\ lastCall.value.results.already_queued = << >>
    /\ lastCall.value.results.failed = << >>
    /\ Len(queue) = 3

(***************************************************************************)
(* The session threads of the BatchProcessor on their own: session-started *)
(* events reach _handle_session_started from any publisher, back to back   *)
(* or apart, before or after the callback is registered.  No session is    *)
(* current in the Brain, so session_ended returns at once.                 *)
(***************************************************************************)
\* _handle_session_started(data) for a session-started event with data["id"] = id
DeliverSessionStarted ==
    \E id \in 1 .. MaxSessions :
        /\ IF spawns(session_callback)
           THEN /\ \E w \in Workers : UnbornWorker(w)
                /\ workers' = [workers EXCEPT ![FreshWorker] =
                                  [NewWorker EXCEPT !.pc = "spawned", !.id = id]]
           ELSE UNCHANGED workers
        /\ emitted' = << Event(SESSION_STARTED, "", "", id) >>
        /\ UNCHANGED <<now, smVars, lastCall, brainVars, calls, bus, queue, session_callback,
                       processing_lock, audit>>

SessionNext ==
    \/ RegisterCallback
    \/ DeliverSessionStarted
    \/ \E w \in Workers : WorkerAcquire(w)
    \/ \E w \in Workers : WorkerEnd(w)

SpecSession == Init /\ [][SessionNext]_vars

\* the session threads that are inside the registered callback
InCallback == { w \in Workers : workers[w].pc = "executing" }

(***************************************************************************)
(* C20  At most one session thread is inside the registered callback at    *)
(* any time, and it is the thread that holds processing_lock: a second     *)
(* session thread enters the callback only after the first has left it.    *)
(***************************************************************************)
C20_OneSessionAtATime ==
    /\ Cardinality(InCallback) <= 1
    /\ \A w \in InCallback : processing_lock = w
    /\ processing_lock # 0 => processing_lock \in InCallback

\* a second session thread waits for the lock while the first is inside the callback
C20_Witness ==
    \E v, w \in Workers : workers[v].pc = "executing" /\ workers[w].pc = "spawned"

(***************************************************************************)
(* The current session of the scheduler.                                   *)
(***************************************************************************)
\* session_started(id) found the plan and built a current session
SessionStartedCall == Len(audit'.started) = Len(audit.started) + 1
StartedId == audit'.started[Len(audit'.started)]

\* the summaries memory holds for session id
Recorded(mem, id) == { j \in 1 .. Len(mem.sessions) : mem.sessions[j].id = id }

\* C21: there is one current session at most: session_started never builds a current
\* session while one is set, session_ended with the id of the current session clears it,
\* and every session that was started and whose end was then reported is in memory
\* exactly once.
C21_OneActiveSession ==
    [][ /\ SessionStartedCall => current_session = NoSession
        /\ (SessionEndedCall /\ session_matches(current_session, EndedId))
               => current_session' = NoSession
        /\ \A j \in 1 .. Len(audit'.ended) :
               (\E i \in 1 .. Len(audit'.started) : audit'.started[i] = audit'.ended[j])
                   => Cardinality(Recorded(memory', audit'.ended[j])) = 1 ]_vars

(***************************************************************************)
(* The queue file under concurrent callers.  Every QueueManager has a lock *)
(* of its own (self.lock = threading.Lock() in __init__); the Brain builds *)
(* one QueueManager and the BatchProcessor is given one, both on the file  *)
(* PROFILE_QUEUE_PATH.  An operation takes the lock of its manager, reads  *)
(* the file, writes it, publishes its event and releases the lock.         *)
(***************************************************************************)
\* Brain.queue_manager and BatchProcessor.queue_manager
QueueManagers == { "brain", "processor" }
\* the keys the concurrent callers use
StoreUrls == { 1, 2 }
\* the queue file the callers find: one profile, submitted earlier and pending
StoredQueue == << QueueEntry(1, FALSE, 0) >>

\* the lock of manager m is held: a caller is inside an operation of m
Locked(m) == \E c \in Callers : calls[c].manager = m /\ calls[c].pc \in { "locked", "publish", "blocked" }

\* the file an operation writes from the copy it read
queue_written(call) ==
    CASE call.op = "add" -> add_profile(call.copy, call.url, call.urgent, now)
      [] call.op = "mark" -> mark_profile_status(call.copy, call.url, call.status)
      [] call.op = "clear" -> << >>

\* the event an operation publishes
queue_event(call) == IF call.op = "mark" THEN mark_event(call.status) ELSE QUEUE_UPDATED

\* the scheduler after construction, on a queue file that holds StoredQueue
StoreInit ==
    /\ now \in StartTimes
    /\ current_state = INACTIVE
    /\ state_data = EmptyData
    /\ state_history = << <<"", INACTIVE>> >>
    /\ emitted = << >>
    /\ lastCall = NoCall
    /\ running = FALSE
    /\ thread = 0
    /\ loops = [l \in Loops |-> NewLoop]
    /\ stopper = NoStop
    /\ next_sessions = << >>
    /\ current_session = NoSession
    /\ memory = NewMemory
    /\ special \in SpecialHours
    /\ queue = StoredQueue
    /\ session_callback = FALSE
    /\ processing_lock = 0
    /\ workers = [w \in Workers |-> NewWorker]
    /\ calls = [c \in Callers |-> IdleCall]
    /\ bus = NewBus
    /\ audit = NewAudit

\* with self.lock: queue = self._read_queue()
QueueCallBegin(c) ==
    \E op \in { "add", "mark", "clear" }, m \in QueueManagers, url \in StoreUrls,
       urgent \in BOOLEAN, status \in MarkStatuses :
        /\ calls[c].pc = "idle"
        /\ ~Locked(m)
        /\ op # "add" => ~urgent
        /\ op # "mark" => status = "completed"
        /\ op = "clear" => url = 1
        /\ calls' = [calls EXCEPT ![c] =
                        [pc |-> "locked", op |-> op, manager |-> m, url |-> url,
                         urgent |-> urgent, status |-> IF op = "mark" THEN status ELSE "",
                         session |-> NoSessionData,
                         copy |-> IF op = "clear" THEN << >> ELSE queue, ok |-> FALSE]]
        /\ emitted' = << >>
        /\ UNCHANGED <<now, bus, smVars, lastCall, running, thread, loops, stopper, next_sessions,
                       current_session, memory, special, queue, session_callback,
                       processing_lock, workers, audit>>

\* self._write_queue(queue); mark_profile_status of a key the copy does not hold
\* returns False (ok stays FALSE) without writing
QueueCallWrite(c) ==
    /\ calls[c].pc = "locked"
    /\ IF calls[c].op = "mark" /\ ~InQueue(calls[c].copy, calls[c].url)
       THEN /\ calls' = [calls EXCEPT ![c].pc = "done"]
            /\ UNCHANGED queue
       ELSE /\ calls' = [calls EXCEPT ![c].pc = "publish"]
            /\ queue' = queue_written(calls[c])
    /\ emitted' = << >>
    /\ UNCHANGED <<now, bus, smVars, lastCall, running, thread, loops, stopper, next_sessions,
                   current_session, memory, special, session_callback, processing_lock,
                   workers, audit>>

\* self.event_bus.publish(...) inside the with block, then return True (ok).  A queue-updated
\* event reaches _handle_queue_updated, which in INACTIVE calls get_queue_stats() of the
\* Brain's manager and so takes that manager's lock: it waits while another caller holds
\* it, and never returns when the publisher itself holds it.
QueueCallPublish(c) ==
    /\ calls[c].pc = "publish"
    /\ IF queue_event(calls[c]) = QUEUE_UPDATED /\ current_state = INACTIVE
       THEN IF calls[c].manager = "brain"
            THEN /\ calls' = [calls EXCEPT ![c].pc = "blocked"]
                 /\ emitted' = << Event(QUEUE_UPDATED, "", "", 0) >>
                 /\ UNCHANGED <<smVars, running, thread, loops>>
            ELSE /\ ~Locked("brain")
                 /\ QueueUpdated(queue)
                 /\ emitted' = queue_updated_events(current_state, queue)
                 /\ calls' = [calls EXCEPT ![c].pc = "done", ![c].ok = TRUE]
       ELSE /\ calls' = [calls EXCEPT ![c].pc = "done", ![c].ok = TRUE]
            /\ emitted' = << Event(queue_event(calls[c]), "", "", calls[c].url) >>
            /\ UNCHANGED <<smVars, running, thread, loops>>
    /\ UNCHANGED <<now, bus, lastCall, stopper, next_sessions, current_session, memory, special,
                   queue, session_callback, processing_lock, workers, audit>>

StoreNext ==
    \/ \E c \in Callers : QueueCallBegin(c)
    \/ \E c \in Callers : QueueCallWrite(c)
    \/ \E c \in Callers : QueueCallPublish(c)

SpecStore == StoreInit /\ [][StoreNext]_vars

\* the calls that have returned
Returned == { c \in Callers : calls[c].pc = "done" }

\* what the call of c leaves of queue file q when nothing runs beside it
queue_after(c, q) ==
    IF calls[c].op = "mark" /\ ~InQueue(q, calls[c].url) THEN q
    ELSE queue_written([calls[c] EXCEPT !.copy = q])

\* the files the calls of S leave of q, run one after the other in every order
RECURSIVE SequentialResults(_, _)
SequentialResults(S, q) ==
    IF S = {} THEN { q }
    ELSE UNION { SequentialResults(S \ { c }, queue_after(c, q)) : c \in S }

\* C22: queue operations are serialized over read, modify and write, whichever
\* QueueManager they go through: once the concurrent add, mark and clear calls have all
\* returned, the queue file is what running them one after the other, in some order,
\* leaves; no update is lost.
C22_QueueCallsSerialized ==
    (\A c \in Callers : calls[c].pc \in { "idle", "done" })
        => queue \in SequentialResults(Returned, StoredQueue)

(***************************************************************************)
(* The memory file under concurrent callers: _update_memory_with_session   *)
(* (from session_ended) and _update_memory_with_profile (from the handlers *)
(* of profile-scraped and profile-failed) take Brain.lock, read the file,  *)
(* change the copy and write it back.                                      *)
(***************************************************************************)
\* calls that record something in memory
MaxRecords == 3
\* the sessions whose end is recorded: started in the hour before now or in this hour
RecordedSessions ==
    { [id |-> i, start_time |-> now - age, end_time |-> now, error |-> FALSE] :
          i \in 1 .. 2, age \in { 60, 3600 } }
RecordedStatuses == { "completed", "failed" }

\* Brain.lock is held
MemoryLocked == \E c \in Callers : calls[c].manager = "memory" /\ calls[c].pc = "locked"

\* the call is made: the thread arrives at with self.lock
MemoryCallBegin(c) ==
    \E op \in { "session", "profile" }, session_data \in RecordedSessions, url \in Urls,
       status \in RecordedStatuses :
        /\ calls[c].pc = "idle"
        /\ audit.records < MaxRecords
        /\ op = "session" => url = 1 /\ status = "completed"
        /\ op = "profile" => session_data.id = 1 /\ session_data.start_time = now - 60
        /\ calls' = [calls EXCEPT ![c] =
                        [IdleCall EXCEPT !.pc = "waiting", !.op = op, !.manager = "memory",
                                         !.url = IF op = "profile" THEN url ELSE 0,
                                         !.status = IF op = "profile" THEN status ELSE "",
                                         !.session = IF op = "session" THEN session_data
                                                     ELSE NoSessionData]]
        /\ audit' = [audit EXCEPT !.records = @ + 1]
        /\ emitted' = << >>
        /\ UNCHANGED <<now, bus, smVars, lastCall, running, thread, loops, stopper, next_sessions,
                       current_session, memory, special, bpVars>>

\* a thread that reads the file without taking the lock
MemoryCallAcquire_unlocked(c) ==
    /\ calls[c].pc = "waiting"
    /\ calls' = [calls EXCEPT ![c].pc = "locked", ![c].copy = memory]
    /\ emitted' = << >>
    /\ UNCHANGED <<now, bus, smVars, lastCall, running, thread, loops, stopper, next_sessions,
                   current_session, memory, special, bpVars, audit>>

\* with self.lock: memory = self._read_memory()
MemoryCallAcquire(c) ==
    /\ calls[c].pc = "waiting"
    /\ ~MemoryLocked
    /\ calls' = [calls EXCEPT ![c].pc = "locked", ![c].copy = memory]
    /\ emitted' = << >>
    /\ UNCHANGED <<now, bus, smVars, lastCall, running, thread, loops, stopper, next_sessions,
                   current_session, memory, special, bpVars, audit>>

\* the copy is changed, self._write_memory(memory), the lock is released
MemoryCallWrite(c) ==
    /\ calls[c].pc = "locked"
    /\ calls[c].manager = "memory"
    /\ memory' = IF calls[c].op = "session"
                 THEN update_memory_with_session(calls[c].copy, calls[c].session)
                 ELSE update_memory_with_profile(calls[c].copy, calls[c].url, calls[c].status)
    /\ calls' = [calls EXCEPT ![c] = IdleCall]
    /\ emitted' = << >>
    /\ UNCHANGED <<now, bus, smVars, lastCall, running, thread, loops, stopper, next_sessions,
                   current_session, special, bpVars, audit>>

MemoryNext ==
    \/ \E c \in Callers : MemoryCallBegin(c)
    \/ \E c \in Callers : MemoryCallAcquire(c)
    \/ \E c \in Callers : MemoryCallWrite(c)

SpecMemory == Init /\ [][MemoryNext]_vars

\* the call of c writes the file in this step
MemoryWritten(c, op) == calls[c].pc = "locked" /\ calls[c].op = op /\ calls'[c].pc = "idle"

IsPrefix(s, t) == Len(s) <= Len(t) /\ SubSeq(t, 1, Len(s)) = s

\* C23: memory is append-only.  No step removes or alters a session summary that is
\* recorded; the step that writes a recorded session appends exactly one summary, filed
\* under the date and the hour of the session's start time; the step that writes an item
\* outcome leaves the summaries as they are; and statistics.total_sessions is the number
\* of summaries recorded -- with session recording and outcome recording running at the
\* same time.
C23_MemoryAppendOnly ==
    [][ /\ IsPrefix(memory.sessions, memory'.sessions)
        /\ \A c \in Callers :
              /\ MemoryWritten(c, "session")
                    => memory'.sessions =
                           Append(memory.sessions,
                                  StoredSession(DateOf(calls[c].session.start_time),
                                                HourOf(calls[c].session.start_time),
                                                calls[c].session))
              /\ MemoryWritten(c, "profile")
                    => /\ memory'.sessions = memory.sessions
                       /\ memory'.profiles[calls[c].url] =
                              Append(memory.profiles[calls[c].url], calls[c].status)
        /\ memory'.total_sessions = Len(memory'.sessions) ]_vars

\* a session of the hour before is recorded, an item outcome is being written, and the
\* recording of a second session waits for the lock
C23_Witness ==
    /\ Len(memory.sessions) = 1
    /\ memory.sessions[1].hour = HourOf(now) - 1
    /\ \E c, d \in Callers :
          /\ calls[c].pc = "locked" /\ calls[c].op = "profile"
          /\ calls[d].pc = "waiting" /\ calls[d].op = "session"

(***************************************************************************)
(* The two files as open() and json.load find them.  In this part queue    *)
(* and memory hold the file with its condition: "valid" (a document the    *)
(* program wrote), "absent" (FileNotFoundError), "malformed" (text that is *)
(* no JSON document: JSONDecodeError) or "undecodable" (bytes that are no  *)
(* text in the encoding of open(): UnicodeDecodeError).                    *)
(***************************************************************************)
DamagedConditions == { "absent", "malformed", "undecodable" }
File(condition, content) == [condition |-> condition, content |-> content]

\* the scheduler after construction, on the files q and mem
Constructed(q, mem) ==
    /\ now \in StartTimes
    /\ current_state = INACTIVE
    /\ state_data = EmptyData
    /\ state_history = << <<"", INACTIVE>> >>
    /\ emitted = << >>
    /\ lastCall = NoCall
    /\ running = FALSE
    /\ thread = 0
    /\ loops = [l \in Loops |-> NewLoop]
    /\ stopper = NoStop
    /\ next_sessions = << >>
    /\ current_session = NoSession
    /\ memory = mem
    /\ special \in SpecialHours
    /\ queue = q
    /\ session_callback = FALSE
    /\ processing_lock = 0
    /\ workers = [w \in Workers |-> NewWorker]
    /\ calls = [c \in Callers |-> IdleCall]
    /\ bus = NewBus
    /\ audit = NewAudit

\* _read_queue: the list it returns, or the exception its except clause lets through
read_queue(file) ==
    CASE file.condition = "valid" -> [raises |-> "", queue |-> file.content]
      [] file.condition \in { "absent", "malformed" } -> [raises |-> "", queue |-> << >>]
      [] OTHER -> [raises |-> "UnicodeDecodeError", queue |-> << >>]

\* _read_memory: what it returns and the file it leaves (_initialize_memory writes the
\* empty structure before the file is read again), or the exception it lets through
read_memory(file) ==
    CASE file.condition = "valid" -> [raises |-> "", memory |-> file.content, file |-> file]
      [] file.condition \in { "absent", "malformed" } ->
            [raises |-> "", memory |-> NewMemory, file |-> File("valid", NewMemory)]
      [] OTHER -> [raises |-> "UnicodeDecodeError", memory |-> NewMemory, file |-> file]

\* one operation of the QueueManager on the file: the exception it raises ("" for none),
\* what it returns and the file it leaves
queue_call(op, file, url, status, count, t) ==
    LET read == read_queue(file)
    IN  CASE op = "clear" -> [raises |-> "", value |-> TRUE, file |-> File("valid", << >>)]
          [] op # "clear" /\ read.raises # "" -> [raises |-> read.raises, value |-> 0, file |-> file]
          [] op = "stats" /\ read.raises = "" ->
                [raises |-> "", value |-> get_queue_stats(read.queue), file |-> file]
          [] op = "next" /\ read.raises = "" ->
                [raises |-> "", value |-> get_next_profiles(read.queue, count), file |-> file]
          [] op = "mark" /\ read.raises = "" ->
                IF InQueue(read.queue, url)
                THEN [raises |-> "", value |-> TRUE,
                      file |-> File("valid", mark_profile_status(read.queue, url, status))]
                ELSE [raises |-> "", value |-> FALSE, file |-> file]
          [] op = "add" /\ read.raises = "" ->
                [raises |-> "", value |-> TRUE,
                 file |-> File("valid", add_profile(read.queue, url, FALSE, t))]

\* whether the operation published queue-updated
publishes_queue_updated(op, status, result) ==
    /\ result.raises = ""
    /\ \/ op \in { "add", "clear" }
       \/ op = "mark" /\ result.value = TRUE /\ mark_event(status) = QUEUE_UPDATED

FilesInit == Constructed(File("valid", << >>), File("valid", NewMemory))

\* a call of one QueueManager operation by a thread that has the store to itself
FileQueueCall(op, url, status, count) ==
    \E result \in { queue_call(op, queue, url, status, count, now) } :
        /\ lastCall' = [op |-> op, target |-> "", ok |-> result.raises = "", value |-> result.value]
        /\ queue' = result.file
        /\ IF publishes_queue_updated(op, status, result)
           THEN /\ QueueUpdated(result.file.content)
                /\ emitted' = queue_updated_events(current_state, result.file.content)
           ELSE /\ UNCHANGED <<smVars, running, thread, loops>>
                /\ emitted' = << >>
        /\ UNCHANGED <<now, stopper, next_sessions, current_session, memory, special, calls, bus,
                       session_callback, processing_lock, workers, audit>>

FileAdd == \E url \in StoreUrls : FileQueueCall("add", url, "", 0)
FileMark == \E url \in StoreUrls, status \in MarkStatuses : FileQueueCall("mark", url, status, 0)
FileGetNext == FileQueueCall("next", 0, "", MaxCount)
FileGetStats == FileQueueCall("stats", 0, "", 0)
FileClear == FileQueueCall("clear", 0, "", 0)

\* _read_memory()
FileReadMemory ==
    \E result \in { read_memory(memory) } :
        /\ lastCall' = [op |-> "read_memory", target |-> "", ok |-> result.raises = "",
                        value |-> result.memory]
        /\ memory' = result.file
        /\ emitted' = << >>
        /\ UNCHANGED <<now, smVars, running, thread, loops, stopper, next_sessions,
                       current_session, special, calls, bus, bpVars, audit>>

\* a file is lost or damaged from outside the program
FileDamage ==
    \E condition \in DamagedConditions :
        /\ \/ queue' = File(condition, << >>) /\ UNCHANGED memory
           \/ memory' = File(condition, NewMemory) /\ UNCHANGED queue
        /\ lastCall' = NoCall
        /\ emitted' = << >>
        /\ UNCHANGED <<now, smVars, running, thread, loops, stopper, next_sessions,
                       current_session, special, calls, bus, session_callback, processing_lock,
                       workers, audit>>

FilesNext ==
    \/ FileAdd
    \/ FileMark
    \/ FileGetNext
    \/ FileGetStats
    \/ FileClear
    \/ FileReadMemory
    \/ FileDamage

SpecFiles == FilesInit /\ [][FilesNext]_vars

\* C24: with the queue file or the memory file absent or unparseable no operation raises:
\* stats reports total 0, next returns nothing, markStatus returns false and writes
\* nothing, add and clear leave a valid file (add: with the one new entry), and reading
\* memory yields the empty structure with zeroed counters.
C24_DamagedStoreNeverRaises ==
    [][ /\ (lastCall'.op \in { "stats", "next", "mark", "add", "clear" }
               /\ queue.condition \in DamagedConditions)
           => /\ lastCall'.ok
              /\ lastCall'.op = "stats" => lastCall'.value.total = 0
              /\ lastCall'.op = "next" => lastCall'.value = << >>
              /\ lastCall'.op = "mark" => (lastCall'.value = FALSE /\ queue' = queue)
              /\ lastCall'.op = "add"
                    => (queue'.condition = "valid" /\ Len(queue'.content) = 1)
              /\ lastCall'.op = "clear" => queue' = File("valid", << >>)
        /\ (lastCall'.op = "read_memory" /\ memory.condition \in DamagedConditions)
           => /\ lastCall'.ok
              /\ lastCall'.value = NewMemory
              /\ memory' = File("valid", NewMemory) ]_vars

(***************************************************************************)
(* The EventBus on its own: subscribe, unsubscribe and publish, with       *)
(* handlers that return or raise and with subscriptions changing while a   *)
(* publish is under way.                                                   *)
(***************************************************************************)
max_history == 100
HandlerOutcomes == { "returns", "raises" }
Members(list) == { list[i] : i \in 1 .. Len(list) }

\* list.remove(x): the list without the first occurrence of x
remove(list, x) ==
    LET first == CHOOSE i \in 1 .. Len(list) :
                     list[i] = x /\ \A j \in 1 .. i - 1 : list[j] # x
    IN  SubSeq(list, 1, first - 1) \o SubSeq(list, first + 1, Len(list))

subscribe_again(subscribers, event_type, callback) ==
    [subscribers EXCEPT ![event_type] = Append(@, callback)]
\* EventBus.subscribe
subscribe(subscribers, event_type, callback) ==
    IF callback \notin Members(subscribers[event_type])
    THEN [subscribers EXCEPT ![event_type] = Append(@, callback)]
    ELSE subscribers

\* EventBus.unsubscribe
unsubscribe(subscribers, event_type, callback) ==
    IF callback \in Members(subscribers[event_type])
    THEN [subscribers EXCEPT ![event_type] = remove(@, callback)]
    ELSE subscribers

propagates_uncaught(outcome) == outcome = "raises"
\* whether what a handler did leaves publish: the except clause catches what it raises
propagates(outcome) == FALSE

\* subscribe(), also from a handler or from another thread while a publish is under way
BusSubscribe(event_type, callback) ==
    /\ bus' = [bus EXCEPT !.subscribers = subscribe(@, event_type, callback)]
    /\ UNCHANGED <<now, smVars, emitted, lastCall, brainVars, calls, bpVars, audit>>

\* unsubscribe(), likewise
BusUnsubscribe(event_type, callback) ==
    /\ bus' = [bus EXCEPT !.subscribers = unsubscribe(@, event_type, callback)]
    /\ UNCHANGED <<now, smVars, emitted, lastCall, brainVars, calls, bpVars, audit>>

\* publish() up to the loop over the subscribers: the history entry, its trimming, and
\* the copy of the subscriber list
BusPublishBegin(event_type) ==
    /\ bus.pc \in { "idle", "returned" }
    /\ bus.history[QUEUE_UPDATED] + bus.history[PROFILE_SCRAPED] < MaxPublished
    /\ bus' = [bus EXCEPT !.history[event_type] =
                              IF @ + 1 > max_history THEN max_history ELSE @ + 1,
                          !.pc = "notify",
                          !.event = event_type,
                          !.copy = bus.subscribers[event_type],
                          !.registered = bus.subscribers[event_type],
                          !.position = 1,
                          !.invoked = << >>,
                          !.raised = {},
                          !.propagated = FALSE]
    /\ UNCHANGED <<now, smVars, emitted, lastCall, brainVars, calls, bpVars, audit>>

\* one turn of the loop: the next callback of the copy is called and returns or raises
BusNotify ==
    /\ bus.pc = "notify"
    /\ bus.position <= Len(bus.copy)
    /\ \E outcome \in HandlerOutcomes :
           bus' = [bus EXCEPT !.invoked = Append(@, bus.copy[bus.position]),
                              !.raised = IF outcome = "raises"
                                         THEN @ \cup { bus.copy[bus.position] } ELSE @,
                              !.position = @ + 1,
                              !.propagated = propagates(outcome),
                              !.pc = IF propagates(outcome) THEN "returned" ELSE @]
    /\ UNCHANGED <<now, smVars, emitted, lastCall, brainVars, calls, bpVars, audit>>

\* the loop is over and publish returns
BusPublishReturn ==
    /\ bus.pc = "notify"
    /\ bus.position > Len(bus.copy)
    /\ bus' = [bus EXCEPT !.pc = "returned"]
    /\ UNCHANGED <<now, smVars, emitted, lastCall, brainVars, calls, bpVars, audit>>

BusNext ==
    \/ \E event_type \in BusEvents, callback \in Handlers : BusSubscribe(event_type, callback)
    \/ \E event_type \in BusEvents, callback \in Handlers : BusUnsubscribe(event_type, callback)
    \/ \E event_type \in BusEvents : BusPublishBegin(event_type)
    \/ BusNotify
    \/ BusPublishReturn

SpecBus == Init /\ [][BusNext]_vars

\* C25: when publish returns, every handler that was registered for the event type at
\* the time of the publish has been invoked, whichever of them raised, and nothing a
\* handler raised has left publish.
C25_PublishInvokesEveryHandler ==
    bus.pc = "returned"
        => /\ \A h \in Members(bus.registered) : h \in Members(bus.invoked)
           /\ ~bus.propagated
\* a publish to two handlers has returned, the first of them raised, and one of them
\* was unsubscribed while the publish was under way
C25_Witness ==
    /\ bus.pc = "returned"
    /\ Len(bus.registered) = 2
    /\ bus.registered[1] \in bus.raised
    /\ bus.invoked = bus.registered
    /\ Len(bus.subscribers[bus.event]) = 1

\* C26: a handler is in the list of an event type at most once; subscribe puts a handler
\* that is not registered behind the registered ones and changes nothing for one that is,
\* unsubscribe leaves the others in their order; and a publish that has returned invoked
\* the handlers registered when it began once each, in the order of that list.
C26_RegisteredOnceDeliveredInOrder ==
    [][ /\ \A e \in BusEvents :
              LET old == bus.subscribers[e]
                  new == bus'.subscribers[e]
              IN  /\ \A i, j \in 1 .. Len(new) : new[i] = new[j] => i = j
                  /\ \/ new = old
                     \/ \E h \in Handlers : h \notin Members(old) /\ new = Append(old, h)
                     \/ \E h \in Members(old) :
                            new = SelectSeq(old, LAMBDA g : g # h)
        /\ bus'.pc = "returned" => bus'.invoked = bus'.registered ]_vars
\* both handlers are registered for an event type, the second one first, after the first
\* one was unsubscribed and subscribed again, and a publish invoked them in that order
C26_Witness ==
    /\ bus.pc = "returned"
    /\ bus.subscribers[bus.event] = << 2, 1 >>
    /\ bus.invoked = << 2, 1 >>

(***************************************************************************)
(* The queue-updated handler of the scheduler.                             *)
(***************************************************************************)
\* the step publishes queue-updated: the handler runs on the queue file as written
QueueUpdatedArrives == Len(emitted') > 0 /\ emitted'[1].type = QUEUE_UPDATED

\* C27: a queue-updated event that arrives in state INACTIVE with a pending entry in the
\* queue moves the state machine to WAITING_FOR_ACTIVE_HOURS and leaves the control loop
\* running; one that arrives with no pending entry, or in another state, changes neither
\* the state nor the history of the state machine.
C27_QueueUpdatedActivates ==
    [][ QueueUpdatedArrives
            => IF current_state = INACTIVE /\ pending(queue') > 0
               THEN /\ current_state' = WAITING_FOR_ACTIVE_HOURS
                    /\ running'
                    /\ \E l \in Loops : ~Unborn(l)'
               ELSE UNCHANGED <<current_state, state_history>> ]_vars

(***************************************************************************)
(* The sleeps of the control loop.                                         *)
(***************************************************************************)
\* thread l goes to sleep in this step
SleepBegins(l) == loops'[l] # loops[l] /\ loops'[l].pc \in { "sleep", "backoff" }

\* C28: whenever the control loop goes to sleep (waiting for active hours, waiting for
\* the planned start, cooldown, error backoff) the sleep ends within a fixed cap, the
\* largest of the caps the handlers use, so that a loop whose running flag was cleared
\* sees it within that time.
C28_SleepsCapped ==
    [][ \A l \in Loops : SleepBegins(l) => loops'[l].wake - now <= WAITING_SLEEP_CAP ]_vars

(***************************************************************************)
(* Sessions and the active hours.                                          *)
(***************************************************************************)
\* C29: the planned start time of every session plan falls in an active hour, and a
\* session is started only at a time that falls in an active hour.
C29_SessionsInActiveHours ==
    [][ /\ \A i \in 1 .. Len(next_sessions') :
               HourOf(next_sessions'[i].planned_start_time) \in ACTIVE_HOURS
        /\ SessionStartedCall => HourOf(now) \in ACTIVE_HOURS ]_vars

(***************************************************************************)
(* The outcome events of an item and what the scheduler records of them.   *)
(***************************************************************************)
\* the step publishes profile-scraped or profile-failed
OutcomeArrives ==
    Len(emitted') = 1 /\ emitted'[1].type \in { PROFILE_SCRAPED, PROFILE_FAILED }

\* C30: on a profile-scraped or profile-failed event the history of that URL in memory
\* grows by one entry with the status of the event, which becomes its last status,
\* whether or not a session is current; and when a session is current its counter of
\* completed or of failed profiles grows by one.
C30_OutcomeReachesMemory ==
    [][ OutcomeArrives
            => LET url == emitted'[1].id
                   status == IF emitted'[1].type = PROFILE_SCRAPED THEN "completed" ELSE "failed"
               IN  /\ memory' = update_memory_with_profile(memory, url, status)
                   /\ current_session.id # 0
                          => IF status = "completed"
                             THEN current_session'.profiles_completed
                                      = current_session.profiles_completed + 1
                             ELSE current_session'.profiles_failed
                                      = current_session.profiles_failed + 1 ]_vars

(***************************************************************************)
(* start() and stop() with the loop threads followed beyond the return of  *)
(* stop(): a thread that has not seen the cleared flag when the join times *)
(* out lives on, and a later start() creates another one.  No session      *)
(* callback is registered here, so a started session is not executed.      *)
(***************************************************************************)
LoopsInit ==
    /\ now \in StartTimes
    /\ current_state = INACTIVE
    /\ state_data = EmptyData
    /\ state_history = << <<"", INACTIVE>> >>
    /\ emitted = << >>
    /\ lastCall = NoCall
    /\ running = FALSE
    /\ thread = 0
    /\ loops = [l \in LoopThreads |-> NewLoop]
    /\ stopper = NoStop
    /\ next_sessions = << >>
    /\ current_session = NoSession
    /\ memory = NewMemory
    /\ special \in SpecialHours
    /\ queue = << >>
    /\ session_callback = FALSE
    /\ processing_lock = 0
    /\ workers = [w \in Workers |-> NewWorker]
    /\ calls = [c \in Callers |-> IdleCall]
    /\ bus = NewBus
    /\ audit = NewAudit

LoopsNext ==
    \/ Start
    \/ StopBegin
    \/ StopJoin
    \/ Submit
    \/ \E l \in LoopThreads : LoopPoll(l)
    \/ \E l \in LoopThreads : LoopHandle(l)
    \/ \E l \in LoopThreads : LoopStarted(l)
    \/ Tick

SpecLoops == LoopsInit /\ [][LoopsNext]_vars

(***************************************************************************)
(* The start of a planned session.                                         *)
(***************************************************************************)
\* the step is the transition from SESSION_STARTING to FEED_BROWSING
EntersFeedBrowsing == current_state = SESSION_STARTING /\ current_state' = FEED_BROWSING

\* C31: session_started is called, and SESSION_STARTING is left for FEED_BROWSING, only
\* when the clock has reached the planned start time of the plan, and the session that
\* is started is the one whose plan state_data carries.
C31_StartedAtPlannedTime ==
    [][ /\ SessionStartedCall
            => /\ state_data.kind = "session_plan"
               /\ state_data.plan.id = StartedId
               /\ now >= state_data.plan.planned_start_time
        /\ EntersFeedBrowsing
            => /\ state_data.kind = "session_plan"
               /\ state_data'.session_id = state_data.plan.id
               /\ now >= state_data.plan.planned_start_time ]_vars

(***************************************************************************)
(* The planning handler on its own: one loop thread in                     *)
(* PLANNING_NEXT_SESSION, a queue file of any content and any draw of the  *)
(* session type.                                                           *)
(***************************************************************************)
\* entries of the queue file at planning time
MaxQueued == 4
\* random.random() in percent: one draw for each of the session types
TypeDraws == { 50, 75, 85, 95 }

\* a queue file of n entries, added in pairs within the same second
PlannedQueue(n, done, urgent) ==
    [i \in 1 .. n |->
        [QueueEntry(i, urgent[i], i \div 2) EXCEPT
             !.done = done[i], !.status = IF done[i] THEN "completed" ELSE "queued"]]

PlanInit ==
    /\ now \in StartTimes
    /\ current_state = PLANNING_NEXT_SESSION
    /\ state_data = EmptyData
    /\ state_history = << <<"", INACTIVE>>, <<INACTIVE, WAITING_FOR_ACTIVE_HOURS>>,
                          <<WAITING_FOR_ACTIVE_HOURS, PLANNING_NEXT_SESSION>> >>
    /\ emitted = << >>
    /\ lastCall = NoCall
    /\ running = TRUE
    /\ thread = 1
    /\ loops = [l \in Loops |-> IF l = 1 THEN [NewLoop EXCEPT !.pc = "poll"] ELSE NewLoop]
    /\ stopper = NoStop
    /\ next_sessions = << >>
    /\ current_session = NoSession
    /\ memory = NewMemory
    /\ special \in SpecialHours
    /\ \E n \in 0 .. MaxQueued :
           \E done \in [1 .. n -> BOOLEAN], urgent \in [1 .. n -> BOOLEAN] :
               queue = PlannedQueue(n, done, urgent)
    /\ session_callback = FALSE
    /\ processing_lock = 0
    /\ workers = [w \in Workers |-> NewWorker]
    /\ calls = [c \in Callers |-> IdleCall]
    /\ bus = NewBus
    /\ audit = NewAudit

\* _handle_planning_next_session, called by the loop that read PLANNING_NEXT_SESSION
PlanHandle(l) ==
    /\ loops[l].pc = "handle"
    /\ loops[l].seen = PLANNING_NEXT_SESSION
    /\ IF pending(queue) = 0
       THEN plan_nothing(l)
       ELSE \E random_offset \in OffsetDraws, random_delay \in DelayDraws, rand \in TypeDraws :
               plan_session(l, random_offset, random_delay, rand)
    /\ UNCHANGED <<now, lastCall, running, thread, stopper, special, calls, bus, queue,
                   session_callback, processing_lock>>

\* the other branches of the loop
PlanOther(l) == loops[l].seen # PLANNING_NEXT_SESSION /\ LoopHandle(l)

PlanNext ==
    \/ \E l \in Loops : LoopPoll(l)
    \/ \E l \in Loops : PlanHandle(l)
    \/ \E l \in Loops : PlanOther(l)

SpecPlan == PlanInit /\ [][PlanNext]_vars

\* the step is a run of the planning handler
PlanningStep ==
    \E l \in Loops : /\ loops[l].pc = "handle"
                     /\ loops[l].seen = PLANNING_NEXT_SESSION
                     /\ loops'[l].pc # "handle"
Published(type) == \E i \in 1 .. Len(emitted') : emitted'[i].type = type

\* C32: the planning handler, run on a queue with a pending entry, adds one plan whose
\* max_profiles is that of its session type and whose profiles are at least one and at
\* most max_profiles entries of the queue, none of them done, in the order in which the
\* queue serves them; run on a queue with nothing pending it adds no plan, publishes no
\* session-planned event and moves the state machine to WAITING_FOR_ACTIVE_HOURS.
C32_PlanHoldsPendingItems ==
    [][ PlanningStep
            => IF pending(queue) = 0
               THEN /\ next_sessions' = next_sessions
                    /\ ~Published(SESSION_PLANNED)
                    /\ current_state' = WAITING_FOR_ACTIVE_HOURS
               ELSE /\ Len(next_sessions') = Len(next_sessions) + 1
                    /\ Published(SESSION_PLANNED)
                    /\ LET plan == next_sessions'[Len(next_sessions')]
                           n == Len(plan.profiles)
                       IN  /\ \E i \in 1 .. Len(SESSION_TYPES) :
                                  /\ SESSION_TYPES[i].name = plan.type
                                  /\ SESSION_TYPES[i].max_profiles = plan.max_profiles
                           /\ 1 <= n /\ n <= plan.max_profiles
                           /\ \A i \in 1 .. n :
                                  /\ InQueue(queue, plan.profiles[i])
                                  /\ ~EntryOf(queue, plan.profiles[i]).done
                           /\ \A i, j \in 1 .. n :
                                  i < j => ServedBefore(queue, EntryOf(queue, plan.profiles[i]),
                                                        EntryOf(queue, plan.profiles[j])) ]_vars
\* a quick session was planned on a queue of four pending entries of which only the last
\* is urgent: the plan holds three of them, the urgent one first
C32_Witness ==
    /\ Len(queue) = 4
    /\ pending(queue) = 4
    /\ Len(next_sessions) = 1
    /\ next_sessions[1].type = "quick"
    /\ next_sessions[1].profiles = << 4, 1, 2 >>
    /\ current_state = SESSION_STARTING

(***************************************************************************)
(* session_ended on its own: sessions announced on the EventBus and ended  *)
(* by the BatchProcessor, next to a current session that a caller set on   *)
(* the Brain as the session test of the repository does.                   *)
(***************************************************************************)
\* brain.current_session = {"id": session_id, "start_time": datetime.now(), ...}
MockSession ==
    \E id \in 1 .. MaxSessions :
        /\ current_session = NoSession
        /\ current_session' = [NoSession EXCEPT !.id = id, !.start_time = now]
        /\ emitted' = << >>
        /\ UNCHANGED <<now, smVars, lastCall, running, thread, loops, stopper, next_sessions,
                       memory, special, calls, bus, bpVars, audit>>

EndedNext ==
    \/ RegisterCallback
    \/ DeliverSessionStarted
    \/ MockSession
    \/ \E w \in Workers : WorkerAcquire(w)
    \/ \E w \in Workers : WorkerEnd(w)

SpecEnded == Init /\ [][EndedNext]_vars

\* C33: session_ended called with an id that is not the id of the current session, or
\* with no session current, leaves memory, the current session, the state and
\* state_data as they are and publishes no session-ended event.
C33_MismatchedEndChangesNothing ==
    [][ (SessionEndedCall /\ (current_session.id = 0 \/ current_session.id # EndedId))
            => /\ UNCHANGED <<memory, current_session, current_state, state_data, state_history>>
               /\ ~Published(SESSION_ENDED) ]_vars
\* session 1 is current and session_ended has been called for session 2, of which
\* memory holds no summary: the call was rejected
C33_Witness ==
    /\ current_session.id = 1
    /\ \E j \in 1 .. Len(audit.ended) : audit.ended[j] = 2
    /\ Recorded(memory, 2) = {}
    /\ memory = NewMemory

\* ---------------------------------------------------------------------------------------
\* The events of queue mutations (SpecStore)

\* the event types a QueueManager publishes
QueueEventTypes == { QUEUE_UPDATED, PROFILE_SCRAPED, PROFILE_FAILED }

\* the queue events among the events of a step
QueueEvents(events) == { i \in 1 .. Len(events) : events[i].type \in QueueEventTypes }

\* caller c leaves the read-modify-write part of its operation
WriteStep(c) == calls[c].pc = "locked" /\ calls'[c].pc # "locked"

\* caller c leaves the publish part of its operation
PublishStep(c) == calls[c].pc = "publish" /\ calls'[c].pc # "publish"

\* C34: every queue mutation publishes exactly one event, after the store is written.
\* The write publishes nothing and leaves the publication to come; the publication
\* leaves the store alone and publishes one queue event: queue-updated for an add
\* (new or existing key) and for a clear, profile-scraped for a mark as completed,
\* profile-failed for a mark as failed, queue-updated for any other mark.  No call
\* returns True (ok) except out of its publication, and the store changes in no other
\* step than a write.  A mark of a key the queue does not hold returns False, writes
\* nothing and publishes nothing.
C34_MutationPublishesOnce ==
    [][ \A c \in Callers :
          /\ WriteStep(c) =>
                /\ QueueEvents(emitted') = {}
                /\ IF calls[c].op = "mark" /\ ~InQueue(calls[c].copy, calls[c].url)
                   THEN /\ calls'[c].pc = "done"
                        /\ ~calls'[c].ok
                        /\ queue' = queue
                   ELSE /\ calls'[c].pc = "publish"
                        /\ calls[c].op = "add" => InQueue(queue', calls[c].url)
                        /\ calls[c].op = "mark" =>
                               \E i \in 1 .. Len(queue') :
                                   /\ queue'[i].url = calls[c].url
                                   /\ queue'[i].status = calls[c].status
                        /\ calls[c].op = "clear" => queue' = << >>
          /\ PublishStep(c) =>
                /\ queue' = queue
                /\ Cardinality(QueueEvents(emitted')) = 1
                /\ emitted'[1].type =
                       CASE calls[c].op = "add" -> QUEUE_UPDATED
                         [] calls[c].op = "clear" -> QUEUE_UPDATED
                         [] calls[c].op = "mark" /\ calls[c].status = "completed" -> PROFILE_SCRAPED
                         [] calls[c].op = "mark" /\ calls[c].status = "failed" -> PROFILE_FAILED
                         [] OTHER -> QUEUE_UPDATED
          /\ (calls'[c].pc = "done" /\ calls'[c].ok /\ calls[c].pc # "done") => PublishStep(c)
          /\ (queue' # queue) => \E d \in Callers : WriteStep(d) ]_vars

\* a mark as failed has published and returned True, and a mark of a key the queue
\* does not hold has returned False
C34_Witness ==
    \E c, d \in Callers :
        /\ calls[c].pc = "done" /\ calls[c].op = "mark" /\ calls[c].status = "failed"
        /\ calls[c].ok
        /\ calls[d].pc = "done" /\ calls[d].op = "mark" /\ ~calls[d].ok
        /\ ~InQueue(queue, calls[d].url)

\* ---------------------------------------------------------------------------------------
\* The state the BatchProcessor reports

\* BatchProcessor.__init__: self.state_machine = StateMachine(), a machine of the
\* processor's own, apart from the Brain's; no code makes a transition on it
processor_state == INACTIVE

\* BatchProcessor.get_status(), without queue_stats
get_status ==
    [processing_active |-> processing_lock # 0,
     has_callback |-> session_callback,
     system_state |-> processor_state]

\* C35: the state the BatchProcessor reports, in get_status() and in the test add_profiles
\* makes before it activates the Brain, is always the state of the Brain's machine.
C35_ProcessorReportsBrainState == get_status.system_state = current_state

\* ---------------------------------------------------------------------------------------
\* The loop threads across start() and stop() (SpecLoops)

\* the threads that are inside _main_loop
LiveLoops == { l \in DOMAIN loops : ~Unborn(l) }

\* C36: at most one loop thread exists across any sequence of start() and stop().  A
\* thread is created only by a start() that finds running False, stop() waits for a
\* thread only when it finds running True, and a start() after a stop() whose join timed
\* out does not leave the old loop alongside the new one: never are two threads inside
\* _main_loop.
C36_AtMostOneLoop ==
    [][ /\ Cardinality(LiveLoops') <= 1
        /\ (\E l \in DOMAIN loops : Unborn(l) /\ loops'[l].pc \notin { "unborn", "done" })
               => ~running /\ running'
        /\ (stopper.pc = "idle" /\ stopper'.pc = "join") => running /\ ~running' ]_vars

\* ---------------------------------------------------------------------------------------
\* The loop thread after stop()

\* stop() has returned, nothing has started the scheduler again, and the state is INACTIVE
StoppedInactive == ~running /\ stopper.pc = "idle" /\ current_state = INACTIVE

\* the step is taken by a thread that is inside _main_loop
LoopThreadStep == \E l \in DOMAIN loops : ~Unborn(l) /\ loops'[l] # loops[l]

\* C37: after stop() has returned with the state INACTIVE, the stopped loop thread makes
\* no further state transition, whatever sleep it was in when stop() was called: a step
\* of that thread leaves the state machine as it is.
C37_StoppedLoopMakesNoTransition ==
    [][ (StoppedInactive /\ LoopThreadStep)
            => /\ current_state' = INACTIVE
               /\ state_history' = state_history ]_vars

\* ---------------------------------------------------------------------------------------
\* Locks and event delivery (SpecStore)

\* caller c is inside "with self.lock" of manager m
HoldsLock(c, m) == calls[c].manager = m /\ calls[c].pc \in { "locked", "publish", "blocked" }

\* caller c is inside a handler that waits for the lock of manager m: the handler of
\* queue-updated, in get_queue_stats() of the Brain's manager
WaitsForLock(c, m) == calls[c].pc = "blocked" /\ m = "brain"

\* C38: no thread deadlocks on a non-reentrant lock through event delivery: no caller
\* waits, inside a handler of the event it publishes, for a lock it holds itself.  In
\* particular an add on the scheduler's own queue while INACTIVE, whose queue-updated
\* handler calls get_queue_stats(), does not wait for its own lock.
C38_NoLockHeldAndAwaited ==
    \A c \in Callers, m \in QueueManagers : ~(HoldsLock(c, m) /\ WaitsForLock(c, m))

\* ---------------------------------------------------------------------------------------
\* The planned sessions

\* C39: next_sessions holds at most one plan, and holds one only while the state is
\* SESSION_STARTING: it is empty once the session has started or the scheduler has been
\* stopped, so plans never accumulate across a stop and a re-activation.
C39_AtMostOnePendingPlan ==
    /\ Len(next_sessions) <= 1
    /\ next_sessions # << >> => current_state = SESSION_STARTING
====
